---- MODULE Spec2Model ----
(***************************************************************************)
(* Parsonic: the scrape orchestrator (src/core/scraper.py), the proxy      *)
(* manager (src/core/proxy_manager.py) and the two engines (src/engines)   *)
(* as state machines.                                                      *)
(*                                                                         *)
(* ScraperOrchestrator.run() is one asyncio coroutine; the control calls   *)
(* stop(), resume() and skip_current() come from the same event loop, so   *)
(* they interleave with run() at its awaits and at its signal emissions    *)
(* (Qt calls the connected slots inside emit).  Each action below is the   *)
(* code between two such points.                                           *)
(***************************************************************************)
EXTENDS Integers, Sequences, FiniteSets, TLC

VARIABLES
    project,          \* the ScraperProject the orchestrator was built with
    pc,               \* where run() stands
    running,          \* self._running
    paused,           \* self._paused
    stop_requested,   \* self._stop_requested
    url_queue,        \* run(): url_queue
    seen_urls,        \* run(): seen_urls
    pages_scraped,    \* run(): pages_scraped
    results,          \* run(): results
    url,              \* run(): url, the URL popped last
    result,           \* run(): result, the ScrapeResult of the last scrape
    signals,          \* what run() has emitted, and what it returns at "done"
    lastCall,         \* the control call made last while run() waited in its pause loop
    pool,             \* ProxyManager.pool.proxies: url -> ProxyStatus
    current_index,    \* ProxyManager.pool.current_index
    proxyOp,          \* the ProxyManager call made last, with what it returned
    exclusion,        \* per proxy: whether a failure streak has excluded it
    engine,           \* one engine instance: its options and its private state
    call,             \* the caller of the engine: its arguments and what it got back
    tasks,            \* per scrape call: the frame of the coroutine
    sems,             \* the asyncio.Semaphore objects created, each with its holders
    rate              \* the engine's rate_limit, and how _wait_rate_limit ended last

orchVars == <<project, pc, running, paused, stop_requested, url_queue, seen_urls,
              pages_scraped, results, url, result, signals, lastCall>>
proxyVars == <<pool, current_index, proxyOp, exclusion>>
engineVars == <<engine, call, tasks, sems, rate>>
vars == <<orchVars, proxyVars, engineVars>>

None == "None"

(***************************************************************************)
(* Bounds of the model.                                                    *)
(***************************************************************************)
MaxSeeds == 2
MaxDepth == 3
MaxProxies == 2
MaxFails == 7

(***************************************************************************)
(* URLs.  A URL is what urlparse makes of it: scheme, netloc, path (name   *)
(* and extension) and whether it carries a fragment.                       *)
(***************************************************************************)
MkUrl(s, n, p, e, f) == [scheme |-> s, netloc |-> n, name |-> p, ext |-> e, frag |-> f]

\* No URL yet (url of run() before the first pop)
NoUrl == MkUrl("", "", "", "", FALSE)

UrlA == MkUrl("http", "a.com", "/", "", FALSE)
UrlB == MkUrl("http", "a.com", "/b", "", FALSE)
UrlC == MkUrl("http", "a.com", "/c", "", FALSE)
UrlD == MkUrl("http", "b.com", "/d", "", FALSE)
UrlCs == MkUrl("https", "a.com", "/c", "", FALSE)

\* An href of an anchor: absolute (a whole URL) or a path relative to the page's origin.
Abs(u) == [abs |-> TRUE, url |-> u]
Rel(p, e, f) == [abs |-> FALSE, url |-> MkUrl("", "", p, e, f)]

\* urllib.parse.urljoin(base_url, href)
urljoin(base, href) ==
    IF href.abs THEN href.url
    ELSE MkUrl(base.scheme, base.netloc, href.url.name, href.url.ext, href.url.frag)

(***************************************************************************)
(* Pages.  The HTML of a page is named by a document id; select gives, per *)
(* link selector, the hrefs of the anchors soup.select(selector) returns   *)
(* for that document, in document order.                                   *)
(***************************************************************************)
Selectors == {1, 2}
Docs == {"PageBCD", "PageBack"}

select(html, selector) ==
    CASE html = "PageBCD" /\ selector = 1 ->
            << Rel("/b", "", FALSE), Rel("/c", "", FALSE), Abs(UrlD),
               Rel("/b", "", FALSE), Rel("/c", "", TRUE) >>
      [] html = "PageBCD" /\ selector = 2 ->
            << Rel("/c", "", FALSE), Rel("/f", ".pdf", FALSE),
               Abs(MkUrl("mailto", "", "x@a.com", "", FALSE)) >>
      [] html = "PageBack" /\ selector = 1 ->
            << Rel("/", "", FALSE), Abs(UrlCs) >>
      [] OTHER -> << >>

\* Python truthiness of result.html (None and "" are falsy)
Truthy(html) == html # None /\ html # ""

(***************************************************************************)
(* ScrapeResult (src/engines/base.py) and what engine.scrape can return.   *)
(***************************************************************************)
ScrapeResult(u, ok, err, html) == [url |-> u, success |-> ok, error |-> err, html |-> html]

\* No result yet (result of run() before the first scrape)
NoResult == ScrapeResult(NoUrl, FALSE, None, None)

DigitChar == << "0", "1", "2", "3", "4", "5", "6", "7", "8", "9" >>
\* str(status_code) of a three-digit status
StatusStr(code) ==
    DigitChar[(code \div 100) + 1] \o DigitChar[((code \div 10) % 10) + 1]
        \o DigitChar[(code % 10) + 1]
ReasonPhrase(code) ==
    CASE code = 404 -> "Not Found"
      [] code = 403 -> "Forbidden"
      [] code = 500 -> "Internal Server Error"
      [] OTHER -> ""
\* f"HTTP {e.response.status_code}: {e.response.reason_phrase}"
HttpError(code) == "HTTP " \o StatusStr(code) \o ": " \o ReasonPhrase(code)

\* URLs the sites' robots.txt disallow
RobotsDisallowed == {UrlB}

\* parsed.path of urlparse(url)
path(u) == u.name \o u.ext

\* message of the RobotsWarning of StaticEngine.check_robots
RobotsMessage(u) == "URL path '" \o path(u) \o "' is disallowed by robots.txt"

\* error of the result StaticEngine.scrape returns for a disallowed URL
RobotsBlockedError(u) == "Blocked by robots.txt: " \o RobotsMessage(u)

\* f"Request failed: {str(e)}" for a connection that could not be made
NetworkError == "Request failed: All connection attempts failed"

\* The results engine.scrape(url, fields) returns: a success with the page's HTML
\* (static engine) or without it (browser engine), and failures: after the retries,
\* or for a URL the robots.txt of its site disallows.
ScrapeOutcomes(u) ==
    { ScrapeResult(u, TRUE, None, d) : d \in Docs }
    \cup { ScrapeResult(u, TRUE, None, None),
           ScrapeResult(u, FALSE, HttpError(404), None),
           ScrapeResult(u, FALSE, HttpError(500), None),
           ScrapeResult(u, FALSE, "Timeout 30000ms exceeded.", "PageBack") }
    \cup (IF u \in RobotsDisallowed
          THEN { ScrapeResult(u, FALSE, RobotsBlockedError(u), None) }
          ELSE {})

\* sub in s, for Python strings
Contains(s, sub) ==
    \E i \in 0..(Len(s) - Len(sub)) : SubSeq(s, i + 1, i + Len(sub)) = sub

\* A pause predicate that takes every error for one that needs a decision
should_pause_on_any_error(r) == r.error # None

\* A pause predicate that looks for the wrong status class
should_pause_on_5xx(r) == r.error # None /\ Contains(r.error, "HTTP 5")

_should_pause_on_error(r) == r.error # None /\ Contains(r.error, "HTTP 4")

(***************************************************************************)
(* Link extraction and the crawl frontier of run().                        *)
(***************************************************************************)
NonPageExt == {".pdf", ".jpg", ".png", ".gif", ".css", ".js"}

\* ScraperOrchestrator._extract_links(html, base_url, selector, same_domain)
_extract_links(html, base_url, selector, same_domain) ==
    LET hrefs == select(html, selector)
        full == [i \in 1..Len(hrefs) |-> urljoin(base_url, hrefs[i])]
        kept(full_url) ==
            /\ full_url.scheme \in {"http", "https"}
            /\ same_domain => full_url.netloc = base_url.netloc
            /\ ~full_url.frag
            /\ full_url.ext \notin NonPageExt
    IN SelectSeq(full, kept)

\* list(dict.fromkeys(links)): the first occurrence of each link, in order
RECURSIVE FromKeys(_, _)
FromKeys(links, acc) ==
    IF links = << >> THEN acc
    ELSE FromKeys(Tail(links),
                  IF \E i \in 1..Len(acc) : acc[i] = Head(links)
                  THEN acc ELSE Append(acc, Head(links)))

\* for selector in link_selectors: all_new_links.extend(_extract_links(...))
RECURSIVE AllNewLinks(_, _, _, _)
AllNewLinks(html, base_url, selectors, same_domain) ==
    IF selectors = << >> THEN << >>
    ELSE _extract_links(html, base_url, Head(selectors), same_domain)
            \o AllNewLinks(html, base_url, Tail(selectors), same_domain)

\* A frontier that queues every link of the page, seen before or not
RECURSIVE AddLinksAll(_, _)
AddLinksAll(links, frontier) ==
    IF links = << >> THEN frontier
    ELSE AddLinksAll(Tail(links),
                     [seen |-> frontier.seen \cup {Head(links)},
                      queue |-> Append(frontier.queue, Head(links))])

\* for link in all_new_links: if link not in seen_urls: add it and queue it.
\* The frontier is the pair of seen_urls and url_queue.
RECURSIVE AddLinks(_, _)
AddLinks(links, frontier) ==
    IF links = << >> THEN frontier
    ELSE AddLinks(Tail(links),
                  IF Head(links) \notin frontier.seen
                  THEN [seen |-> frontier.seen \cup {Head(links)},
                        queue |-> Append(frontier.queue, Head(links))]
                  ELSE frontier)

\* The frontier after the crawl step of run() for a result
Ingest(r, base_url, frontier) ==
    IF /\ project.link_follow.enabled
       /\ project.link_follow.link_selectors # << >>
       /\ Truthy(r.html)
    THEN AddLinks(FromKeys(AllNewLinks(r.html, base_url,
                                       project.link_follow.link_selectors,
                                       project.link_follow.same_domain_only), << >>),
                  frontier)
    ELSE frontier

\* max_pages of run()
max_pages ==
    IF project.link_follow.enabled THEN project.link_follow.max_depth
    ELSE Len(project.target.urls)

SeqToSet(s) == {s[i] : i \in 1..Len(s)}

(***************************************************************************)
(* The projects a run is started with.                                     *)
(***************************************************************************)
SeedUrls == {UrlA, UrlD}

RECURSIVE SeqsUpTo(_, _)
SeqsUpTo(S, n) ==
    IF n = 0 THEN {<< >>}
    ELSE LET shorter == SeqsUpTo(S, n - 1)
         IN shorter \cup {Append(q, x) : q \in shorter, x \in S}

\* LinkFollowConfig: crawling off keeps the defaults of src/models/project.py
LinkFollowConfigs ==
    { [enabled |-> FALSE, link_selectors |-> << >>, max_depth |-> 1,
       same_domain_only |-> TRUE] }
    \cup [enabled : {TRUE}, link_selectors : {<< >>, <<1, 2>>},
          max_depth : 0..MaxDepth, same_domain_only : BOOLEAN]

Projects ==
    [target : [urls : SeqsUpTo(SeedUrls, MaxSeeds)],
     fields : {0, 1},
     link_follow : LinkFollowConfigs]

NoSignals ==
    [error |-> 0, paused |-> 0, robots_warning |-> {}, crawling |-> << >>,
     progress |-> << >>, completed |-> << >>, returned |-> << >>]

\* ScraperOrchestrator.__init__
InitOrch ==
    /\ project \in Projects
    /\ pc = "idle"
    /\ running = FALSE
    /\ paused = FALSE
    /\ stop_requested = FALSE
    /\ url_queue = << >>
    /\ seen_urls = {}
    /\ pages_scraped = 0
    /\ results = << >>
    /\ url = NoUrl
    /\ result = NoResult
    /\ signals = NoSignals
    /\ lastCall = None

(***************************************************************************)
(* run()                                                                   *)
(***************************************************************************)
\* A run() that starts its loop without looking at the URLs and the fields
RunStartUnchecked ==
    /\ pc = "idle"
    /\ running' = TRUE
    /\ stop_requested' = FALSE
    /\ results' = << >>
    /\ url_queue' = project.target.urls
    /\ seen_urls' = SeqToSet(project.target.urls)
    /\ pages_scraped' = 0
    /\ pc' = "loop"
    /\ UNCHANGED <<project, paused, url, result, lastCall, signals, proxyVars, engineVars>>

\* A run() that leaves the stop flag as it finds it
RunStartKeepsStop ==
    /\ pc = "idle"
    /\ IF project.target.urls = << >> \/ project.fields = 0
       THEN /\ signals' = [signals EXCEPT !.error = @ + 1, !.returned = << >>]
            /\ pc' = "done"
            /\ UNCHANGED <<running, results, url_queue, seen_urls, pages_scraped>>
       ELSE /\ running' = TRUE
            /\ results' = << >>
            /\ url_queue' = project.target.urls
            /\ seen_urls' = SeqToSet(project.target.urls)
            /\ pages_scraped' = 0
            /\ pc' = "loop"
            /\ UNCHANGED signals
    /\ UNCHANGED <<project, paused, stop_requested, url, result, lastCall, proxyVars,
                   engineVars>>

\* run() up to its first await: the precondition checks and the set-up
RunStart ==
    /\ pc = "idle"
    /\ IF project.target.urls = << >> \/ project.fields = 0
       THEN /\ signals' = [signals EXCEPT !.error = @ + 1, !.returned = << >>]
            /\ pc' = "done"
            /\ UNCHANGED <<running, stop_requested, results, url_queue, seen_urls,
                           pages_scraped>>
       ELSE /\ running' = TRUE
            /\ stop_requested' = FALSE
            /\ results' = << >>
            /\ url_queue' = project.target.urls
            /\ seen_urls' = SeqToSet(project.target.urls)
            /\ pages_scraped' = 0
            /\ pc' = "loop"
            /\ UNCHANGED signals
    /\ UNCHANGED <<project, paused, url, result, lastCall, proxyVars, engineVars>>

\* The end of run(): after the loop
Finish ==
    /\ running' = FALSE
    /\ signals' = [signals EXCEPT !.completed = Append(@, results), !.returned = results]
    /\ pc' = "done"
    /\ UNCHANGED <<project, paused, stop_requested, url_queue, seen_urls, pages_scraped,
                   results, url, result, lastCall, proxyVars, engineVars>>

\* A loop that takes one page more than the budget
LoopConditionOffByOne == url_queue # << >> /\ pages_scraped <= max_pages

\* while url_queue and pages_scraped < max_pages
LoopCondition == url_queue # << >> /\ pages_scraped < max_pages

\* A loop that never looks at the stop flag
StopIgnored == FALSE

\* if self._stop_requested: break
StopObserved == stop_requested

\* A pop from the wrong end of the queue
PopLast(queue) == [url |-> queue[Len(queue)], rest |-> SubSeq(queue, 1, Len(queue) - 1)]

\* url_queue.pop(0)
Pop(queue) == [url |-> Head(queue), rest |-> Tail(queue)]

\* The head of the while loop: leave it, or pop the next URL and call check_robots
LoopHead ==
    /\ pc = "loop"
    /\ IF LoopCondition /\ ~StopObserved
       THEN /\ url' = Pop(url_queue).url
            /\ url_queue' = Pop(url_queue).rest
            /\ pages_scraped' = pages_scraped + 1
            /\ signals' = [signals EXCEPT !.crawling = Append(@, Pop(url_queue).url)]
            /\ pc' = "robots"
            /\ UNCHANGED <<project, running, paused, stop_requested, seen_urls, results,
                           result, lastCall, proxyVars, engineVars>>
       ELSE Finish

\* engine.check_robots(url) returns: a warning or None (robots.txt not respected or
\* not fetched); then scrape is called
CheckRobotsDone ==
    /\ pc = "robots"
    /\ \E warning \in {w \in BOOLEAN : w => url \in RobotsDisallowed} :
          signals' = IF warning
                     THEN [signals EXCEPT !.robots_warning = @ \cup {url}]
                     ELSE signals
    /\ pc' = "scrape"
    /\ UNCHANGED <<project, running, paused, stop_requested, url_queue, seen_urls,
                   pages_scraped, results, url, result, lastCall, proxyVars, engineVars>>

\* run() from results.append(result) to the end of the loop body
AfterScrape(r) ==
    LET frontier == Ingest(r, url, [seen |-> seen_urls, queue |-> url_queue])
        total == IF project.link_follow.enabled THEN max_pages
                 ELSE Len(project.target.urls)
    IN /\ results' = Append(results, r)
       /\ seen_urls' = frontier.seen
       /\ url_queue' = frontier.queue
       /\ signals' = [signals EXCEPT !.progress = Append(@, <<pages_scraped, total>>)]
       /\ pc' = "loop"

\* engine.scrape(url, fields) returns
ScrapeDone ==
    /\ pc = "scrape"
    /\ \E r \in ScrapeOutcomes(url) :
          /\ result' = r
          /\ IF ~r.success /\ _should_pause_on_error(r)
             THEN /\ paused' = TRUE
                  /\ signals' = [signals EXCEPT !.paused = @ + 1]
                  /\ pc' = "paused"
                  /\ UNCHANGED <<results, seen_urls, url_queue>>
             ELSE /\ AfterScrape(r)
                  /\ UNCHANGED paused
    /\ lastCall' = None
    /\ UNCHANGED <<project, running, stop_requested, pages_scraped, url, proxyVars, engineVars>>

\* A pause loop that only a stop ends
PauseWaitingForStop == ~stop_requested

\* while self._paused and not self._stop_requested
PauseWaiting == paused /\ ~stop_requested

\* The pause loop is left: by stop, or to go on with the result
PauseEnd ==
    /\ pc = "paused"
    /\ ~PauseWaiting
    /\ IF stop_requested
       THEN /\ Finish
            /\ lastCall' = lastCall
       ELSE /\ AfterScrape(result)
            /\ lastCall' = None
            /\ UNCHANGED <<project, running, paused, stop_requested, pages_scraped, url,
                           result, proxyVars, engineVars>>

(***************************************************************************)
(* The control calls.                                                      *)
(***************************************************************************)
Called(name) == lastCall' = IF pc = "paused" THEN name ELSE lastCall

\* A resume that flips the pause flag
resume_toggle ==
    /\ paused' = ~paused
    /\ Called("resume")
    /\ UNCHANGED <<project, pc, running, stop_requested, url_queue, seen_urls,
                   pages_scraped, results, url, result, signals, proxyVars, engineVars>>

resume ==
    /\ paused' = FALSE
    /\ Called("resume")
    /\ UNCHANGED <<project, pc, running, stop_requested, url_queue, seen_urls,
                   pages_scraped, results, url, result, signals, proxyVars, engineVars>>

skip_current ==
    /\ paused' = FALSE
    /\ Called("skip_current")
    /\ UNCHANGED <<project, pc, running, stop_requested, url_queue, seen_urls,
                   pages_scraped, results, url, result, signals, proxyVars, engineVars>>

\* A stop that flips the flag instead of setting it
stop_toggle(flags) ==
    [flags EXCEPT !.stop_requested = ~flags.stop_requested, !.paused = FALSE]

\* stop() on the flags of the orchestrator
stop_flags(flags) == [flags EXCEPT !.stop_requested = TRUE, !.paused = FALSE]

RunControl == [running |-> running, paused |-> paused, stop_requested |-> stop_requested]

stop ==
    /\ stop_requested' = stop_flags(RunControl).stop_requested
    /\ paused' = stop_flags(RunControl).paused
    /\ Called("stop")
    /\ running' = stop_flags(RunControl).running
    /\ UNCHANGED <<project, pc, url_queue, seen_urls, pages_scraped, results,
                   url, result, signals, proxyVars, engineVars>>

\* The properties is_running and is_paused
is_running == running
is_paused == paused

\* get_next_proxy() returning None
NoProxy == 0

NoProxyOp == [op |-> "none", arg |-> NoProxy, ret |-> NoProxy, recovered |-> FALSE]

\* An orchestrator whose engines use no proxy manager
InitProxyIdle ==
    /\ pool = << >>
    /\ current_index = 0
    /\ proxyOp = NoProxyOp
    /\ exclusion = << >>

\* Python's empty dict, as a function
EmptyData == [name \in {} |-> None]

\* No engine created (self._static_engine and self._js_engine are None)
NoEngine ==
    [variant |-> "none", retry_count |-> 0, max_concurrent |-> 0,
     respect_robots |-> FALSE, detect_duplicates |-> FALSE,
     client |-> FALSE, playwright |-> FALSE, semaphore |-> 0,
     robots_cache |-> {}, seen_hashes |-> {}, consecutive_errors |-> 0,
     proxy |-> [enabled |-> FALSE, proxies |-> << >>, rotate |-> TRUE],
     proxy_index |-> 0, failed_proxies |-> {}, browser_proxy |-> NoProxy,
     fail_streak |-> << >>]

NoCall ==
    [op |-> "none", urls |-> << >>, fields |-> << >>, finished |-> << >>,
     returned |-> FALSE, final_results |-> << >>]

\* A delay that was not slept
NoDelay == -1

\* RateLimitConfig() and no call of _wait_rate_limit yet; delays are in whole seconds
RateLimitConfig(min_delay, max_delay, adaptive) ==
    [min_delay |-> min_delay, max_delay |-> max_delay, adaptive |-> adaptive,
     called |-> FALSE, errors |-> 0, delay |-> NoDelay, raised |-> None]

\* The rate limit is looked at only through the order of the steps of scrape
NoRate == RateLimitConfig(1, 3, TRUE)

\* An orchestrator whose engine is looked at only through what scrape returns
InitEngineIdle ==
    /\ engine = NoEngine
    /\ call = NoCall
    /\ tasks = << >>
    /\ sems = << >>
    /\ rate = NoRate

Init == InitOrch /\ InitProxyIdle /\ InitEngineIdle

Next ==
    \/ RunStart
    \/ LoopHead
    \/ CheckRobotsDone
    \/ ScrapeDone
    \/ PauseEnd
    \/ resume
    \/ skip_current
    \/ stop

Spec == Init /\ [][Next]_vars

\* Every awaited call of run() returns and its sleep ends
RunStep == LoopHead \/ CheckRobotsDone \/ ScrapeDone \/ PauseEnd
\* The caller answers a pause
Answer == pc = "paused" /\ (resume \/ skip_current \/ stop)

FairSpec == Spec /\ WF_vars(RunStep) /\ WF_vars(Answer)

\* engine.scrape(url, fields) raises: PlaywrightEngine.scrape awaits _init_browser()
\* outside its try, so a browser that cannot be launched raises out of scrape.
\* run() has no handler: the exception leaves run() where it stands.
ScrapeRaises ==
    /\ pc = "scrape"
    /\ pc' = "raised"
    /\ UNCHANGED <<project, running, paused, stop_requested, url_queue, seen_urls,
                   pages_scraped, results, url, result, lastCall, signals, proxyVars,
                   engineVars>>

NextRaising == Next \/ ScrapeRaises

\* The orchestrator with an engine whose scrape can raise
SpecRaising == Init /\ [][NextRaising]_vars

\* The orchestrator with a stop request left over: stop() was called before the run,
\* or the run before this one was stopped (which can leave _paused set as well)
InitStale ==
    /\ project \in Projects
    /\ pc = "idle"
    /\ running = FALSE
    /\ paused \in BOOLEAN
    /\ stop_requested = TRUE
    /\ url_queue = << >>
    /\ seen_urls = {}
    /\ pages_scraped = 0
    /\ results = << >>
    /\ url = NoUrl
    /\ result = NoResult
    /\ signals = NoSignals
    /\ lastCall = None
    /\ InitProxyIdle
    /\ InitEngineIdle

\* The run and the answers to a pause; stop() is not called again
NextStale ==
    \/ RunStart
    \/ LoopHead
    \/ CheckRobotsDone
    \/ ScrapeDone
    \/ PauseEnd
    \/ resume
    \/ skip_current

SpecStale == InitStale /\ [][NextStale]_vars

(***************************************************************************)
(* Properties of the orchestrator.                                         *)
(***************************************************************************)
IsPrefix(a, b) == Len(a) <= Len(b) /\ SubSeq(b, 1, Len(a)) = a

\* The errors of the HTTP 4xx class, as the static engine words them
Http4xxErrors == {HttpError(code) : code \in {403, 404}}

\* No URL is popped by this step
NoPop == pages_scraped' = pages_scraped /\ signals'.crawling = signals.crawling

\* C1: a scrape that fails with an HTTP 4xx error puts the run in its pause (is_paused
\* true, the paused signal emitted); until resume(), skip_current() or stop() is
\* called the run stays there with is_paused true and pops no URL; it leaves the pause
\* with no call made only when stop() had been called before, and then to end.
C1_PausesOn4xx ==
    /\ [][(pc = "scrape" /\ pc' # "scrape" /\ ~result'.success
              /\ result'.error \in Http4xxErrors)
          => (pc' = "paused" /\ is_paused' /\ signals'.paused = signals.paused + 1
              /\ results' = results /\ NoPop)]_vars
    /\ [][(pc = "paused" /\ lastCall = None)
          => /\ NoPop
             /\ results' = results
             /\ pc' = "paused" \/ (stop_requested /\ pc' = "done")]_vars
    /\ [](pc = "paused" /\ lastCall = None => is_paused)

C1_Witness ==
    /\ pc = "paused" /\ is_paused /\ lastCall = None /\ ~stop_requested
    /\ result.error = HttpError(404)
    /\ url_queue # << >> /\ LoopCondition

\* C2: when the run leaves a pause (no stop requested) after resume() the held result
\* is appended to results, and after skip_current() it is not.
C2_SkipDiscardsResult ==
    [][(pc = "paused" /\ pc' # "paused" /\ ~stop_requested)
       => /\ pc' = "loop"
          /\ lastCall = "resume" => results' = Append(results, result)
          /\ lastCall = "skip_current" => results' = results]_vars

C4_StopIdempotent ==
    /\ [](ENABLED stop)
    /\ [](stop_flags(stop_flags(RunControl)) = stop_flags(RunControl))
    /\ [][IsPrefix(results, results')]_vars

C4_Witness ==
    /\ pc = "done" /\ stop_requested /\ results # << >>
    /\ signals.returned = results

\* C5: a run that has started ends, given that each awaited call returns and each
\* pause is answered; it pops at most max_pages URLs.
C5_Terminates ==
    /\ (pc # "idle") ~> (pc = "done")
    /\ [](Len(signals.crawling) <= max_pages)

C5_Witness ==
    /\ pc = "done" /\ ~stop_requested
    /\ project.link_follow.enabled
    /\ pages_scraped = max_pages /\ max_pages = MaxDepth
    /\ url_queue # << >>
    /\ signals.paused > 0

\* C6: no URL is popped twice in a run, for every seed list.
C6_NoUrlFetchedTwice ==
    \A i, j \in 1..Len(signals.crawling) :
        i # j => signals.crawling[i] # signals.crawling[j]

\* C7: pages_scraped is the number of URLs popped and never exceeds max_pages; with
\* max_pages = 0 nothing is popped and nothing is scraped.
C7_PagesWithinBudget ==
    /\ pages_scraped = Len(signals.crawling)
    /\ pages_scraped <= max_pages
    /\ max_pages = 0 => (signals.crawling = << >> /\ results = << >>
                         /\ pc \in {"idle", "loop", "done"})

C7_Witness ==
    /\ pc = "done" /\ ~stop_requested
    /\ pages_scraped = max_pages /\ max_pages = 2
    /\ url_queue # << >>
    /\ \E i \in 1..Len(results) : ~results[i].success

\* The URLs this step appends to url_queue
Queued == {url_queue'[i] : i \in (Len(url_queue) + 1)..Len(url_queue')}

\* Visits are first-in first-out: a pop takes the head of url_queue, every other step
\* of a run only appends to it, and the seeds are queued first, in input order
FifoOrder ==
    /\ [][pages_scraped' # pages_scraped
          => /\ url' = Head(url_queue)
             /\ url_queue' = Tail(url_queue)
             /\ signals'.crawling = Append(signals.crawling, Head(url_queue))]_vars
    /\ [][(pages_scraped' = pages_scraped /\ pc # "idle")
          => IsPrefix(url_queue, url_queue')]_vars
    /\ [](running => IsPrefix(project.target.urls, signals.crawling \o url_queue))

\* Seed A, crawling on, max_pages 3, same domain only, and A's page is the one that
\* links to B, C (same domain) and D (another domain)
ScenarioABC ==
    /\ project.target.urls = <<UrlA>>
    /\ project.fields = 1
    /\ project.link_follow = [enabled |-> TRUE, link_selectors |-> <<1, 2>>,
                              max_depth |-> 3, same_domain_only |-> TRUE]
    /\ Len(results) >= 1
    /\ results[1].html = "PageBCD"

ScenarioOrder ==
    [](ScenarioABC
       => /\ IsPrefix(signals.crawling, <<UrlA, UrlB, UrlC>>)
          /\ UrlD \notin seen_urls
          /\ UrlD \notin SeqToSet(url_queue)
          /\ (pc = "done" /\ ~stop_requested) => signals.crawling = <<UrlA, UrlB, UrlC>>)

Origin(u) == <<u.scheme, u.netloc>>

\* C8 as stated: first-in first-out visits; with same_domain_only no link of another
\* origin (scheme and host) than the page it was found on is queued; the scenario
\* visits A, B, C and never queues D.
C8_BfsNoCrossOrigin ==
    /\ FifoOrder
    /\ [][(project.link_follow.same_domain_only /\ pc # "idle")
          => \A link \in Queued : Origin(link) = Origin(url)]_vars
    /\ ScenarioOrder

\* C8 as the code has it: first-in first-out visits; with same_domain_only no link of
\* another host (netloc) than the page it was found on is queued, whatever its
\* scheme; the scenario visits A, B, C and never queues D.
C8_BfsSameNetloc ==
    /\ FifoOrder
    /\ [][(project.link_follow.same_domain_only /\ pc # "idle")
          => \A link \in Queued : link.netloc = url.netloc]_vars
    /\ ScenarioOrder

C8_Witness ==
    /\ ScenarioABC
    /\ pc = "done" /\ ~stop_requested
    /\ signals.crawling = <<UrlA, UrlB, UrlC>>
    /\ UrlCs \in SeqToSet(url_queue)

\* Errors of failed results that are not of the HTTP 4xx class: a server error, a
\* failed connection, a timeout, a URL blocked by robots.txt
NonClientErrors ==
    {HttpError(500), NetworkError, "Timeout 30000ms exceeded.", RobotsBlockedError(UrlB)}

C20_OneResultPerPage ==
    pc = "done" =>
        /\ Len(signals.returned) = pages_scraped
        /\ Len(signals.progress) = pages_scraped

\* if not self.project.target.urls / if not self.project.fields
PreconditionFails == project.target.urls = << >> \/ project.fields = 0

\* C21: with no seed URL or no field rule, run() emits the error signal once, pops
\* and scrapes no URL, returns the empty list and is_running is never true; a run
\* with URLs and fields emits no error signal.
C21_PreconditionAborts ==
    IF PreconditionFails
    THEN /\ ~is_running
         /\ pc \in {"idle", "done"}
         /\ signals.error = (IF pc = "done" THEN 1 ELSE 0)
         /\ pc = "done" => signals.returned = << >>
         /\ signals.crawling = << >> /\ pages_scraped = 0
         /\ results = << >> /\ signals.progress = << >>
    ELSE signals.error = 0

C21_Witness ==
    /\ pc = "done"
    /\ project.target.urls # << >> /\ project.fields = 0
    /\ signals.error = 1
    /\ ~is_running

\* C24: when run() has taken the links of a page into the frontier, taking the same
\* page (same URL, HTML, selectors, same_domain_only) once more adds nothing to
\* url_queue and leaves seen_urls as it is; one page queues each of its links at
\* most once, none that was seen before, and every link it queues is seen after.
C24_IngestIdempotent ==
    [][results' # results
       => LET frontier == [seen |-> seen_urls', queue |-> url_queue']
              added == [i \in 1..(Len(url_queue') - Len(url_queue)) |->
                           url_queue'[Len(url_queue) + i]]
          IN /\ Ingest(result', url, frontier) = frontier
             /\ IsPrefix(url_queue, url_queue')
             /\ \A i, j \in DOMAIN added : i # j => added[i] # added[j]
             /\ SeqToSet(added) \cap seen_urls = {}
             /\ seen_urls' = seen_urls \cup SeqToSet(added)]_vars

C24_Witness ==
    /\ signals.crawling = <<UrlA, UrlA>>
    /\ Len(results) = 2
    /\ results[1].html = "PageBCD" /\ results[2].html = "PageBCD"
    /\ project.link_follow.link_selectors = <<1, 2>>
    /\ url_queue = <<UrlB, UrlC>>
    /\ seen_urls = {UrlA, UrlB, UrlC}

\* The run is a crawl: link following is on and has selectors
Crawling == project.link_follow.enabled /\ project.link_follow.link_selectors # << >>

\* C30: in a crawl, when scrape returns a success, run() has the HTML of the page
\* in the result and takes its links into the frontier in the same turn of the
\* loop, before the next pop: every link of the page that passes the filters is
\* in seen_urls afterwards, and queued if it was not seen before.  Whatever engine
\* made the result.
C30_SuccessFeedsFrontier ==
    [][(pc = "scrape" /\ pc' = "loop" /\ result'.success /\ Crawling)
       => /\ Truthy(result'.html)
          /\ \A link \in SeqToSet(AllNewLinks(result'.html, url,
                                               project.link_follow.link_selectors,
                                               project.link_follow.same_domain_only)) :
                /\ link \in seen_urls'
                /\ link \notin seen_urls => link \in SeqToSet(url_queue')]_vars

\* With the HTML in the result, the links of the page are taken into the frontier
SuccessWithHtmlFeedsFrontier ==
    [][(pc = "scrape" /\ pc' = "loop" /\ result'.success /\ Crawling
          /\ Truthy(result'.html))
       => \A link \in SeqToSet(AllNewLinks(result'.html, url,
                                            project.link_follow.link_selectors,
                                            project.link_follow.same_domain_only)) :
             /\ link \in seen_urls'
             /\ link \notin seen_urls => link \in SeqToSet(url_queue')]_vars

\* C35: a run() that starts with a stop request pending, and gets no stop() of its
\* own, clears the request when it starts and is not ended by it: it runs with
\* stop_requested false and leaves its loop only with the queue empty or the page
\* budget used up.
C35_StaleStopIgnored ==
    /\ [][(pc = "idle" /\ pc' = "loop") => (stop_requested /\ ~stop_requested')]_vars
    /\ [](is_running => ~stop_requested)
    /\ [][(pc \in {"loop", "paused"} /\ pc' = "done")
            => (pc = "loop" /\ ~LoopCondition)]_vars

C35_Witness ==
    /\ pc = "done"
    /\ ~stop_requested
    /\ Len(results) = Len(project.target.urls)
    /\ Len(results) >= 2

\* The state of the orchestrator and of its run
RunState ==
    <<running, paused, stop_requested, url_queue, seen_urls, pages_scraped, results,
      url, result, pc, signals>>

\* C36: a call of resume() or skip_current() that finds is_paused false (a step that
\* is not one of run() and sets no stop request) changes nothing: running,
\* stop_requested, the queue, the seen set, the results and the rest of the run are
\* as before, so nothing is remembered.  A 4xx failure that arrives later, with no
\* stop requested, pauses the run, and the pause lasts until a call is made.
C36_ResumeUnpausedIsNoOp ==
    /\ [][(~is_paused /\ pc' = pc /\ stop_requested' = stop_requested)
            => UNCHANGED RunState]_vars
    /\ [][(pc = "scrape" /\ pc' # "scrape" /\ ~stop_requested /\ ~result'.success
              /\ result'.error \in Http4xxErrors)
            => (pc' = "paused" /\ is_paused')]_vars
    /\ [][(pc = "paused" /\ is_paused /\ ~stop_requested /\ is_paused')
            => pc' = "paused"]_vars

\* The first pause of a run, after pages that went through: every resume() and
\* skip_current() called so far found is_paused false
C36_Witness ==
    /\ pc = "paused" /\ is_paused /\ ~stop_requested
    /\ signals.paused = 1
    /\ Len(results) >= 1
    /\ result.error \in Http4xxErrors

\* run() is over: it has returned, or an exception has left it
RunOver == pc \in {"done", "raised"}

\* C37: a run() that passed the precondition checks has, when it is over, emitted
\* completed once, with the list it returned; completed is emitted with is_running
\* false and no progress signal follows it.
C37_CompletedOnce ==
    /\ []((RunOver /\ ~PreconditionFails)
            => /\ Len(signals.completed) = 1
               /\ signals.completed[1] = signals.returned
               /\ ~is_running)
    /\ [](Len(signals.completed) <= 1)
    /\ [][signals'.completed # signals.completed => ~is_running']_vars
    /\ [][signals.completed # << >> => signals'.progress = signals.progress]_vars

\* A run() that returns has emitted completed once, with the list it returns, after
\* the last progress signal and with is_running false
ReturnedRunCompletedOnce ==
    /\ []((pc = "done" /\ ~PreconditionFails)
            => /\ Len(signals.completed) = 1
               /\ signals.completed[1] = signals.returned
               /\ ~is_running)
    /\ [](Len(signals.completed) <= 1)
    /\ [][signals'.completed # signals.completed => ~is_running']_vars
    /\ [][signals.completed # << >> => signals'.progress = signals.progress]_vars

\* C34: is_paused implies is_running in every state, whatever the order of stop(),
\* resume() and skip_current() and the steps of run(); once run() has returned
\* neither holds; and no paused signal is emitted when a stop has been requested.
C34_PausedOnlyWhileRunning ==
    /\ [](is_paused => is_running)
    /\ [](pc = "done" => ~is_running /\ ~is_paused)
    /\ [][signals'.paused # signals.paused => ~stop_requested]_vars

\* is_paused without is_running only after a stop request
PausedWhileRunningOrStopped == is_paused => (is_running \/ stop_requested)

(***************************************************************************)
(* ProxyManager (src/core/proxy_manager.py).  Proxy URLs are 1, 2, ...;    *)
(* pool is pool.proxies, a dict in insertion order, here the function from *)
(* the position of a proxy to its ProxyStatus.  Of a ProxyStatus only the  *)
(* fields the manager decides on are kept: is_healthy and fail_count.      *)
(***************************************************************************)
\* ProxyPool.max_fail_count
max_fail_count == 3

ProxyUrls == 1..MaxProxies

\* ProxyStatus(url=proxy)
ProxyStatus == [is_healthy |-> TRUE, fail_count |-> 0]

\* An orchestrator that is never run, beside the proxy manager
InitOrchIdle ==
    /\ project = [target |-> [urls |-> << >>], fields |-> 0,
                  link_follow |-> [enabled |-> FALSE, link_selectors |-> << >>,
                                   max_depth |-> 1, same_domain_only |-> TRUE]]
    /\ pc = "idle"
    /\ running = FALSE
    /\ paused = FALSE
    /\ stop_requested = FALSE
    /\ url_queue = << >>
    /\ seen_urls = {}
    /\ pages_scraped = 0
    /\ results = << >>
    /\ url = NoUrl
    /\ result = NoResult
    /\ signals = NoSignals
    /\ lastCall = None

\* ProxyManager.__init__(proxies) for the lists <<>>, <<1>>, <<1, 2>>, ...
InitProxy ==
    /\ InitOrchIdle
    /\ InitEngineIdle
    /\ \E n \in 0..MaxProxies :
          /\ pool = [i \in 1..n |-> ProxyStatus]
          /\ exclusion = [i \in 1..n |-> "no"]
    /\ current_index = 0
    /\ proxyOp = NoProxyOp

\* The property healthy_proxies: the healthy proxy URLs in the order of the dict
healthy_proxies(proxies) ==
    LET is_healthy(i) == proxies[i].is_healthy
    IN SelectSeq([i \in 1..Len(proxies) |-> i], is_healthy)

\* A recovery that resets every proxy, whatever its failure count
recover_all(proxies) ==
    [i \in DOMAIN proxies |-> [proxies[i] EXCEPT !.is_healthy = TRUE]]

\* get_next_proxy: "Try to recover - reset all proxies"
recover(proxies) ==
    [i \in DOMAIN proxies |->
        IF proxies[i].fail_count < max_fail_count * 2
        THEN [proxies[i] EXCEPT !.is_healthy = TRUE]
        ELSE proxies[i]]

\* A rotation that stays where it is
rotate_stuck(index, healthy) == index % Len(healthy)

\* self.pool.current_index = (self.pool.current_index + 1) % len(healthy)
rotate(index, healthy) == (index + 1) % Len(healthy)

get_next_proxy ==
    LET none_healthy == healthy_proxies(pool) = << >>
        proxies == IF none_healthy THEN recover(pool) ELSE pool
        healthy == healthy_proxies(proxies)
        index == rotate(current_index, healthy)
    IN /\ pool' = proxies
       /\ exclusion' = [i \in DOMAIN exclusion |->
                           IF proxies[i].is_healthy /\ ~pool[i].is_healthy
                           THEN "no" ELSE exclusion[i]]
       /\ IF healthy = << >>
          THEN /\ proxyOp' = [op |-> "get_next_proxy", arg |-> NoProxy, ret |-> NoProxy,
                              recovered |-> none_healthy]
               /\ UNCHANGED current_index
          ELSE /\ current_index' = index
               /\ proxyOp' = [op |-> "get_next_proxy", arg |-> NoProxy,
                              ret |-> healthy[index + 1],
                              recovered |-> none_healthy]
       /\ UNCHANGED <<orchVars, engineVars>>

OtherOp(name) == [op |-> name, arg |-> NoProxy, ret |-> NoProxy, recovered |-> FALSE]

\* mark_success(proxy_url) or mark_failure(proxy_url) was called
MarkOp(name, proxy_url) == [OtherOp(name) EXCEPT !.arg = proxy_url]

\* A success mark that leaves the failure count as it is
healthy_status(status) == [status EXCEPT !.is_healthy = TRUE]

\* The ProxyStatus after mark_success
succeeded_status(status) == [status EXCEPT !.is_healthy = TRUE, !.fail_count = 0]

mark_success(proxy_url) ==
    /\ IF proxy_url \in DOMAIN pool
       THEN /\ pool' = [pool EXCEPT ![proxy_url] = succeeded_status(@)]
            /\ exclusion' = [exclusion EXCEPT ![proxy_url] = "no"]
       ELSE UNCHANGED <<pool, exclusion>>
    /\ proxyOp' = MarkOp("mark_success", proxy_url)
    /\ UNCHANGED <<current_index, orchVars, engineVars>>

\* A failure mark that waits for one failure more than the threshold
failed_status_late(status) ==
    [fail_count |-> status.fail_count + 1,
     is_healthy |-> IF status.fail_count + 1 > max_fail_count
                    THEN FALSE ELSE status.is_healthy]

\* The ProxyStatus after mark_failure
failed_status(status) ==
    [fail_count |-> status.fail_count + 1,
     is_healthy |-> IF status.fail_count + 1 >= max_fail_count
                    THEN FALSE ELSE status.is_healthy]

mark_failure(proxy_url) ==
    /\ proxy_url \in DOMAIN pool => pool[proxy_url].fail_count < MaxFails
    /\ IF proxy_url \in DOMAIN pool
       THEN /\ pool' = [pool EXCEPT ![proxy_url] = failed_status(@)]
            /\ exclusion' = [exclusion EXCEPT ![proxy_url] =
                                IF pool[proxy_url].fail_count + 1 >= max_fail_count
                                THEN "excluded" ELSE @]
       ELSE UNCHANGED <<pool, exclusion>>
    /\ proxyOp' = MarkOp("mark_failure", proxy_url)
    /\ UNCHANGED <<current_index, orchVars, engineVars>>

\* check_proxy(proxy_url): the request through the proxy succeeds (ok) or raises
check_proxy(proxy_url, ok) ==
    /\ IF proxy_url \in DOMAIN pool
       THEN /\ pool' = [pool EXCEPT ![proxy_url].is_healthy = ok]
            /\ exclusion' = [exclusion EXCEPT ![proxy_url] =
                                IF ok /\ @ = "excluded" THEN "rechecked" ELSE @]
       ELSE UNCHANGED <<pool, exclusion>>
    /\ proxyOp' = OtherOp("check_proxy")
    /\ UNCHANGED <<current_index, orchVars, engineVars>>

reset_all ==
    /\ pool' = [i \in DOMAIN pool |-> [is_healthy |-> TRUE, fail_count |-> 0]]
    /\ exclusion' = [i \in DOMAIN exclusion |-> "no"]
    /\ proxyOp' = OtherOp("reset_all")
    /\ UNCHANGED <<current_index, orchVars, engineVars>>

NextProxy ==
    \/ get_next_proxy
    \/ \E proxy_url \in ProxyUrls : mark_success(proxy_url)
    \/ \E proxy_url \in ProxyUrls : mark_failure(proxy_url)
    \/ \E proxy_url \in ProxyUrls, ok \in BOOLEAN : check_proxy(proxy_url, ok)
    \/ reset_all

SpecProxy == InitProxy /\ [][NextProxy]_vars

(***************************************************************************)
(* Properties of the proxy manager.                                        *)
(***************************************************************************)
Returned == proxyOp.op = "get_next_proxy"

\* C9: on a pool with at least one proxy get_next_proxy returns a proxy, never None.
C9_NextReturnsProxy ==
    (Returned /\ DOMAIN pool # {}) => proxyOp.ret # NoProxy

\* C10 as stated: while another proxy is healthy, get_next_proxy never returns a proxy
\* that max_fail_count or more consecutive failures have excluded, until a
\* mark_success for it or a reset.
C10_ExcludedUntilSuccessOrReset ==
    (/\ Returned /\ proxyOp.ret # NoProxy
     /\ \E other \in DOMAIN pool : other # proxyOp.ret /\ pool[other].is_healthy)
    => exclusion[proxyOp.ret] = "no"

\* C10 as the code has it: get_next_proxy never returns a proxy that max_fail_count
\* or more consecutive failures have excluded, until a mark_success for it, a passing
\* check_proxy of it, or a reset.
C10_ExcludedUntilReadmitted ==
    (Returned /\ proxyOp.ret # NoProxy) => exclusion[proxyOp.ret] # "excluded"

C10_Witness ==
    /\ Returned /\ proxyOp.ret = 2 /\ ~proxyOp.recovered
    /\ exclusion[1] = "excluded" /\ pool[1].fail_count >= max_fail_count
    /\ ~pool[1].is_healthy

\* What n calls of get_next_proxy in a row return, from current_index = index on and
\* with the healthy proxies staying as they are
RECURSIVE Rotation(_, _, _)
Rotation(index, healthy, n) ==
    IF n = 0 THEN << >>
    ELSE << healthy[rotate(index, healthy) + 1] >>
            \o Rotation(rotate(index, healthy), healthy, n - 1)

\* C27: get_next_proxy returns the healthy proxy after the one at current_index, in
\* the order of the pool and cyclically: with k proxies healthy and staying so, the
\* next k calls return each of them once, wherever current_index stands.  The
\* proxy a call returns is healthy when the call returns, and no other call moves
\* current_index.
C27_RoundRobin ==
    /\ [](LET healthy == healthy_proxies(pool)
               k == Len(healthy)
               returns == Rotation(current_index, healthy, k)
           IN k > 0 =>
                 /\ SeqToSet(returns) = SeqToSet(healthy)
                 /\ \A i, j \in 1..k : i # j => returns[i] # returns[j])
    /\ []((Returned /\ proxyOp.ret # NoProxy)
            => /\ pool[proxyOp.ret].is_healthy
               /\ proxyOp.ret = healthy_proxies(pool)[current_index + 1])
    /\ [][(proxyOp'.op = "get_next_proxy" /\ healthy_proxies(pool) # << >>)
          => /\ healthy_proxies(pool') = healthy_proxies(pool)
             /\ <<proxyOp'.ret>> = Rotation(current_index, healthy_proxies(pool), 1)
             /\ current_index' = rotate(current_index, healthy_proxies(pool))]_vars
    /\ [][proxyOp'.op # "get_next_proxy" => current_index' = current_index]_vars

C27_Witness ==
    /\ Len(pool) = MaxProxies
    /\ \A i \in DOMAIN pool : pool[i].is_healthy
    /\ pool[1].fail_count = 2
    /\ Returned /\ proxyOp.ret = 1
    /\ current_index = 0

\* Every proxy but proxy_url has the record it had
OthersUnchanged(proxy_url) ==
    /\ DOMAIN pool' = DOMAIN pool
    /\ \A other \in DOMAIN pool : other # proxy_url => pool'[other] = pool[other]

\* C28: mark_failure(p) adds one to the failure count of p and marks p unhealthy if
\* the count has reached max_fail_count (3); below it p keeps its health, so a
\* healthy proxy stays healthy.  mark_success(p) sets the count to 0 and marks p
\* healthy.  Both leave the record of every other proxy as it is, and the whole
\* pool when p is not in it.
C28_MarksUpdateOneProxy ==
    /\ [][proxyOp'.op = "mark_failure"
          => LET p == proxyOp'.arg
             IN /\ OthersUnchanged(p)
                /\ p \in DOMAIN pool =>
                      /\ pool'[p].fail_count = pool[p].fail_count + 1
                      /\ pool'[p].fail_count >= 3 => ~pool'[p].is_healthy
                      /\ pool'[p].fail_count < 3
                            => pool'[p].is_healthy = pool[p].is_healthy]_vars
    /\ [][proxyOp'.op = "mark_success"
          => LET p == proxyOp'.arg
             IN /\ OthersUnchanged(p)
                /\ p \in DOMAIN pool =>
                      pool'[p].fail_count = 0 /\ pool'[p].is_healthy]_vars
    /\ [][proxyOp'.op \in {"mark_failure", "mark_success"}
          => current_index' = current_index]_vars

C28_Witness ==
    /\ Len(pool) = MaxProxies
    /\ proxyOp = MarkOp("mark_failure", 1)
    /\ pool[1].fail_count = max_fail_count /\ ~pool[1].is_healthy
    /\ pool[2].fail_count = max_fail_count - 1 /\ pool[2].is_healthy

(***************************************************************************)
(* The engines (src/engines/static_engine.py, src/engines/js_engine.py).   *)
(* A scrape call is a coroutine; its frame is tasks[t].  The actions are   *)
(* the code between two awaits.  The caller is either run(), which calls   *)
(* check_robots and scrape for one URL after the other, or scrape_batch,   *)
(* which starts one scrape per URL and gathers them.                       *)
(***************************************************************************)
MaxRetry == 2
MaxUrls == 2
MaxSlots == 2

Variants == {"static", "js"}

\* f"{parsed.scheme}://{parsed.netloc}"
base_url(u) == u.scheme \o "://" \o u.netloc

\* SelectorField: the name of the field and its selector
SelectorField(name, selector) == [name |-> name, selector |-> selector]

FieldSets ==
    { << SelectorField("title", "h1") >>,
      << SelectorField("title", "h1"), SelectorField("price", ".price") >>,
      << SelectorField("title", "h1"), SelectorField("title", ".price") >> }

\* _extract_field: the sanitized value of the first matching element, or None
_extract_field(doc, field) ==
    CASE doc = "PageBCD" /\ field.selector = "h1" -> "Products"
      [] doc = "PageBack" /\ field.selector = "h1" -> "Back"
      [] doc = "PageBack" /\ field.selector = ".price" -> "9"
      [] OTHER -> None

\* An extraction that keeps only the fields it found a value for
RECURSIVE ExtractFound(_, _)
ExtractFound(doc, fields) ==
    IF fields = << >> THEN EmptyData
    ELSE LET data == ExtractFound(doc, SubSeq(fields, 1, Len(fields) - 1))
             field == fields[Len(fields)]
             value == _extract_field(doc, field)
         IN IF value = None THEN data
            ELSE [name \in DOMAIN data \cup {field.name} |->
                     IF name = field.name THEN value ELSE data[name]]

\* data = {}; for field in fields: data[field.name] = self._extract_field(...)
RECURSIVE Extract(_, _)
Extract(doc, fields) ==
    IF fields = << >> THEN EmptyData
    ELSE LET data == Extract(doc, SubSeq(fields, 1, Len(fields) - 1))
             field == fields[Len(fields)]
         IN [name \in DOMAIN data \cup {field.name} |->
                IF name = field.name THEN _extract_field(doc, field) ELSE data[name]]

\* The field names in sorted order
SortedNames == << "price", "title" >>

\* sorted(data.items()): the (name, value) pairs in the order of the names
sorted_items(data) ==
    LET present(name) == name \in DOMAIN data
        names == SelectSeq(SortedNames, present)
    IN [i \in 1..Len(names) |-> << names[i], data[names[i]] >>]

\* A hash of the field names alone
hash_of_names(data) == DOMAIN data

\* _compute_hash(data): the MD5 digest of str(sorted(data.items())), taken as free
\* of collisions: one digest per list of items
_compute_hash(data) == sorted_items(data)

\* A ScrapeResult with its data
WithData(r, data) ==
    [url |-> r.url, success |-> r.success, data |-> data, error |-> r.error,
     html |-> r.html]

\* No result yet
NoEngineResult == WithData(NoResult, EmptyData)

\* What the network gives for one page request: a response, or an exception
Response(status, doc) == [raised |-> None, status |-> status, doc |-> doc]
Raised(message) == [raised |-> message, status |-> 0, doc |-> None]

\* httpx: a response of any status, or a RequestError
StaticResponses ==
    {Response(200, doc) : doc \in Docs}
    \cup {Response(404, "PageBack"), Raised("All connection attempts failed")}

\* Playwright: page.goto returns the response of any status, or raises
JsResponses ==
    {Response(200, doc) : doc \in Docs}
    \cup {Response(404, "PageBack"), Raised("Timeout 30000ms exceeded.")}

\* response.raise_for_status() raises HTTPStatusError
raise_for_status(response) == response.status >= 400

\* The error an attempt of StaticEngine.scrape ends with, None if it succeeds
StaticAttemptError(response) ==
    IF response.raised # None THEN "Request failed: " \o response.raised
    ELSE IF raise_for_status(response) THEN HttpError(response.status)
    ELSE None

\* The error an attempt of PlaywrightEngine.scrape ends with: str(e) of what
\* the block raised, None if it succeeds
JsAttemptError(response) == response.raised

\* async with self._semaphore, while self._semaphore is None
NoSemaphoreError == "'NoneType' object does not support the asynchronous context manager protocol"

\* A backoff of one second whatever the attempt
backoff_fixed(attempt) == 1

\* asyncio.sleep(2 ** attempt)
backoff(attempt) == 2 ^ attempt

\* A retry loop that sleeps after its last attempt too
sleeps_after_last(attempt, retry_count) == attempt <= retry_count

\* if attempt < self.retry_count: the attempt is followed by a sleep and a retry
retries_left(attempt, retry_count) == attempt < retry_count

\* rp.can_fetch("*", url) of the parsed robots.txt of the URL's site
can_fetch(u) == u \notin RobotsDisallowed

(***************************************************************************)
(* The engine instance, its caller and the frames of the scrape calls.     *)
(***************************************************************************)
\* StaticEngine.__init__ / PlaywrightEngine.__init__, as _get_engine calls them
NewEngine(variant, retry_count, max_concurrent, respect_robots, detect_duplicates) ==
    [variant |-> variant, retry_count |-> retry_count,
     max_concurrent |-> max_concurrent, respect_robots |-> respect_robots,
     detect_duplicates |-> detect_duplicates,
     client |-> FALSE, playwright |-> FALSE, semaphore |-> 0,
     robots_cache |-> {}, seen_hashes |-> {}, consecutive_errors |-> 0,
     proxy |-> [enabled |-> FALSE, proxies |-> << >>, rotate |-> TRUE],
     proxy_index |-> 0, failed_proxies |-> {}, browser_proxy |-> NoProxy,
     fail_streak |-> << >>]

\* The frame of check_robots(url) and scrape(url, fields) for one URL.  robots_run
\* and robots_scrape tell how the robots.txt of the site answered the check made
\* by run() and the check made inside scrape; outcomes, sleeps and requests are
\* the history of the retry loop, picks the proxy each attempt chose for itself
\* and reports what each attempt told the engine's proxy bookkeeping at its end;
\* status is the status of the response the last page request got (0: none), page
\* tells that the attempt has a browser page open.
Frame(u) ==
    [url |-> u, pc |-> "new", in_scrape |-> FALSE,
     robots_run |-> "none", robots_scrape |-> "none", warning |-> None,
     attempt |-> 0, sem |-> 0, last_error |-> None, html |-> None, status |-> 0,
     page |-> FALSE,
     outcomes |-> << >>, sleeps |-> << >>, requests |-> 0,
     proxy |-> NoProxy, picks |-> << >>, reports |-> << >>,
     ret |-> NoEngineResult, raised |-> None]

EngineUrls == {UrlA, UrlB}

UrlLists == SeqsUpTo(EngineUrls, MaxUrls) \ {<< >>}

\* The URL lists of a batch: distinct pages of two sites
BatchUrlLists == {SubSeq(<<UrlA, UrlB, UrlC, UrlD>>, 1, n) : n \in 1..MaxUrls}

NewCall(op, urls, fields) ==
    [op |-> op, urls |-> urls, fields |-> fields, finished |-> << >>,
     returned |-> FALSE, final_results |-> << >>]

\* run() with a fresh engine: it takes its URLs one after the other
InitRun ==
    /\ InitOrchIdle
    /\ InitProxyIdle
    /\ \E variant \in Variants, retry_count \in 0..MaxRetry,
          respect_robots \in BOOLEAN, detect_duplicates \in BOOLEAN :
          engine = NewEngine(variant, retry_count, MaxSlots, respect_robots,
                             detect_duplicates)
    /\ \E urls \in UrlLists, fields \in FieldSets :
          /\ call = NewCall("run", urls, fields)
          /\ tasks = << Frame(urls[1]) >>
    /\ sems = << >>
    /\ rate = NoRate

\* scrape_batch(urls, fields) on a fresh engine
InitBatch ==
    /\ InitOrchIdle
    /\ InitProxyIdle
    /\ \E variant \in Variants, retry_count \in {0, 1},
          max_concurrent \in 1..MaxSlots, respect_robots \in BOOLEAN :
          engine = NewEngine(variant, retry_count, max_concurrent, respect_robots, TRUE)
    /\ \E urls \in BatchUrlLists :
          /\ call = NewCall("scrape_batch", urls,
                            << SelectorField("title", "h1") >>)
          /\ tasks = [i \in 1..Len(urls) |-> Frame(urls[i])]
    /\ sems = << >>
    /\ rate = NoRate

Finished(f) == f.pc \in {"done", "raised"}

\* One step of the coroutine of task t: its frame, the engine and the semaphores
\* after the step
Step(t, f, e, sm) ==
    /\ tasks' = [tasks EXCEPT ![t] = f]
    /\ engine' = e
    /\ sems' = sm
    /\ call' = IF Finished(f) /\ ~Finished(tasks[t])
               THEN [call EXCEPT !.finished = Append(@, t)]
               ELSE call
    /\ UNCHANGED <<rate, orchVars, proxyVars>>

\* return ScrapeResult(...)
Return(f, r) == [f EXCEPT !.pc = "done", !.ret = r]

\* _get_client(): the client and the semaphore are made together, without an await
_get_client(e, sm) ==
    IF ~e.client
    THEN [engine |-> [e EXCEPT !.client = TRUE, !.semaphore = Len(sm) + 1],
          sems |-> Append(sm, 0)]
    ELSE [engine |-> e, sems |-> sm]

\* ProxyConfig(enabled=True, proxies=[1, 2, ...], rotate=rotate)
ProxyConfig(n, rotating) ==
    [enabled |-> TRUE, proxies |-> [i \in 1..n |-> i], rotate |-> rotating]

\* An engine of a project that has proxying enabled.  fail_streak counts, per
\* proxy, the failed attempts in a row made through it.
WithProxies(e, config) ==
    [e EXCEPT !.proxy = config, !.fail_streak = [i \in DOMAIN config.proxies |-> 0]]

\* _get_proxy(): the proxy it returns (NoProxy for None) and the engine after it
_get_proxy(e) ==
    IF ~e.proxy.enabled \/ e.proxy.proxies = << >>
    THEN [proxy |-> NoProxy, engine |-> e]
    ELSE LET not_failed(p) == p \notin e.failed_proxies
             left == SelectSeq(e.proxy.proxies, not_failed)
             available == IF left = << >> THEN e.proxy.proxies ELSE left
             failed == IF left = << >> THEN {} ELSE e.failed_proxies
             index == (e.proxy_index + 1) % Len(available)
         IN IF e.proxy.rotate
            THEN [proxy |-> available[index + 1],
                  engine |-> [e EXCEPT !.failed_proxies = failed, !.proxy_index = index]]
            ELSE [proxy |-> available[1],
                  engine |-> [e EXCEPT !.failed_proxies = failed]]

\* self._robots_cache[base_url] = ...
Cached(cache, u) == cache \cup {base_url(u)}

\* A check that reads a failed fetch of robots.txt as a denial
robots_fail_closed(u) == RobotsMessage(u)

\* except Exception: return None
robots_fail_open(u) == None

\* StaticEngine.check_robots from rp = self._robots_cache.get(base_url) on
robots_verdict(cache, u) ==
    IF base_url(u) \in cache /\ ~can_fetch(u) THEN RobotsMessage(u) ELSE None

\* A scrape that goes on to the page whatever check_robots returned
robots_warn_only(f, warning) == [f EXCEPT !.pc = "rate"]

\* StaticEngine.scrape after check_robots returned warning: the blocked result, or
\* on to the rate limit
AfterRobots(f, warning) ==
    IF warning # None
    THEN Return(f, WithData(ScrapeResult(f.url, FALSE, RobotsBlockedError(f.url), None),
                            EmptyData))
    ELSE [f EXCEPT !.pc = "rate"]

\* check_robots has returned warning, to run() or to scrape; how tells what the
\* site's robots.txt did
RobotsReturned(f, warning, how) ==
    IF f.in_scrape
    THEN AfterRobots([f EXCEPT !.robots_scrape = how], warning)
    ELSE [f EXCEPT !.robots_run = how, !.warning = warning, !.pc = "checked"]

\* In scrape_batch every scrape runs up to its first await before any of them
\* goes on: gather starts the tasks in order and the awaited I/O ends later
Resumable ==
    call.op = "scrape_batch" => \A i \in DOMAIN tasks : tasks[i].pc # "new"

\* StaticEngine.check_robots up to its await, or to its return
StaticCheckRobots(t, f, e, sm) ==
    IF ~e.respect_robots
    THEN Step(t, RobotsReturned(f, None, "off"), e, sm)
    ELSE IF base_url(f.url) \in e.robots_cache
    THEN Step(t, RobotsReturned(f, robots_verdict(e.robots_cache, f.url), "cached"), e, sm)
    ELSE LET made == _get_client(e, sm)
         IN Step(t, [f EXCEPT !.pc = "robots_wait"], made.engine, made.sems)

\* PlaywrightEngine.check_robots: it never requests robots.txt, and the only value
\* it stores for a site is True
JsCheckRobots(t, f) ==
    IF ~engine.respect_robots
    THEN Step(t, RobotsReturned(f, None, "off"), engine, sems)
    ELSE IF base_url(f.url) \in engine.robots_cache
    THEN Step(t, RobotsReturned(f, None, "cached"), engine, sems)
    ELSE Step(t, RobotsReturned(f, None, "unchecked"),
              [engine EXCEPT !.robots_cache = Cached(@, f.url)], sems)

\* run(): warning = await engine.check_robots(url)
check_robots(t) ==
    /\ call.op = "run"
    /\ tasks[t].pc = "new"
    /\ IF engine.variant = "static" THEN StaticCheckRobots(t, tasks[t], engine, sems)
       ELSE JsCheckRobots(t, tasks[t])

\* The request for robots.txt is answered, or fails
RobotsResponse(t) ==
    /\ tasks[t].pc = "robots_wait"
    /\ Resumable
    /\ \E ok \in BOOLEAN :
          IF ok
          THEN LET cache == Cached(engine.robots_cache, tasks[t].url)
               IN Step(t, RobotsReturned(tasks[t], robots_verdict(cache, tasks[t].url),
                                         "fetched"),
                       [engine EXCEPT !.robots_cache = cache], sems)
          ELSE Step(t, RobotsReturned(tasks[t], robots_fail_open(tasks[t].url), "failed"),
                    engine, sems)

(***************************************************************************)
(* scrape(url, fields)                                                     *)
(***************************************************************************)
\* scrape up to its first await
scrape(t) ==
    /\ \/ call.op = "run" /\ tasks[t].pc = "checked"
       \/ /\ call.op = "scrape_batch"
          /\ tasks[t].pc = "new"
          /\ \A i \in 1..(t - 1) : tasks[i].pc # "new"
    /\ LET f == [tasks[t] EXCEPT !.in_scrape = TRUE]
       IN IF engine.variant = "static"
          THEN LET made == _get_client(engine, sems)
               IN StaticCheckRobots(t, f, made.engine, made.sems)
          ELSE IF ~engine.playwright
          THEN Step(t, [f EXCEPT !.pc = "init_start"], engine, sems)
          ELSE Step(t, [f EXCEPT !.pc = "rate"], engine, sems)

\* _init_browser: self._playwright = await async_playwright().start(), and on to
\* the launch of the browser with proxy = self._get_proxy()
PlaywrightStarted(t) ==
    /\ tasks[t].pc = "init_start"
    /\ Resumable
    /\ LET picked == _get_proxy([engine EXCEPT !.playwright = TRUE])
       IN Step(t, [tasks[t] EXCEPT !.pc = "init_launch"],
               [picked.engine EXCEPT !.browser_proxy = picked.proxy], sems)

\* _init_browser from the launch of the browser to self._semaphore = Semaphore(...),
\* or the launch raises
BrowserReady(t) ==
    /\ tasks[t].pc = "init_launch"
    /\ Resumable
    /\ \E ok \in BOOLEAN :
          IF ok
          THEN Step(t, [tasks[t] EXCEPT !.pc = "rate"],
                    [engine EXCEPT !.semaphore = Len(sems) + 1], Append(sems, 0))
          ELSE Step(t, [tasks[t] EXCEPT !.pc = "raised",
                                        !.raised = "BrowserType.launch: Executable doesn't exist"],
                    engine, sems)

\* for attempt in range(self.retry_count + 1)
in_range(attempt, retry_count) == attempt < retry_count + 1

\* A failure return that carries an entry per field rule
ExhaustedWithFields(f) ==
    Return(f, WithData(ScrapeResult(f.url, FALSE, f.last_error, f.html),
                       Extract(f.html, call.fields)))

\* After the last attempt: return ScrapeResult(success=False, data={}, error=last_error)
Exhausted(f) ==
    Return(f, WithData(ScrapeResult(f.url, FALSE, f.last_error, f.html), EmptyData))

\* The head of the retry loop and the attempt up to async with self._semaphore
Arrive(f, e) ==
    IF ~in_range(f.attempt, e.retry_count) THEN Exhausted(f)
    ELSE [f EXCEPT !.pc = "acquire", !.sem = e.semaphore]

\* StaticEngine.scrape, except HTTPStatusError / RequestError:
\* if proxy: self._failed_proxies.add(proxy)
ProxyFailed(e, proxy) ==
    IF proxy = NoProxy THEN e
    ELSE [e EXCEPT !.failed_proxies = @ \cup {proxy}, !.fail_streak[proxy] = @ + 1]

\* An attempt through the proxy succeeded: its run of failed attempts is over (no
\* code of the engines takes note of it)
ProxySucceeded(e, proxy) ==
    IF proxy = NoProxy THEN e ELSE [e EXCEPT !.fail_streak[proxy] = 0]

\* An attempt ends in an except clause: the error is kept, and a sleep follows
\* unless it was the last attempt
AttemptFailed(f, e, error) ==
    LET failed == [f EXCEPT !.last_error = error, !.outcomes = Append(@, error),
                            !.page = FALSE,
                            !.reports = Append(@, IF f.proxy = NoProxy THEN "none"
                                                  ELSE "failure"),
                            !.sem = 0]
    IN IF retries_left(f.attempt, e.retry_count)
       THEN [failed EXCEPT !.pc = "backoff", !.sleeps = Append(@, backoff(f.attempt))]
       ELSE Arrive([failed EXCEPT !.attempt = @ + 1], e)

\* _wait_rate_limit() has slept
RateLimitDone(t) ==
    /\ tasks[t].pc = "rate"
    /\ Resumable
    /\ Step(t, Arrive(tasks[t], engine), engine, sems)

\* The proxy an attempt chooses for itself: StaticEngine.scrape calls _get_proxy()
\* at the head of each attempt, PlaywrightEngine.scrape does not
AttemptProxy(e) ==
    IF e.variant = "static" THEN _get_proxy(e) ELSE [proxy |-> NoProxy, engine |-> e]

\* proxy = self._get_proxy() (plain-HTTP engine) and async with self._semaphore: the
\* slot is taken and the page request goes out
Acquire(t) ==
    /\ tasks[t].pc = "acquire"
    /\ Resumable
    /\ LET picked == AttemptProxy(engine)
           f == [tasks[t] EXCEPT !.proxy = picked.proxy,
                                 !.picks = Append(@, picked.proxy)]
       IN IF tasks[t].sem = 0
          THEN Step(t, AttemptFailed(f, engine, NoSemaphoreError),
                    [picked.engine EXCEPT !.consecutive_errors = @ + 1], sems)
          ELSE /\ sems[tasks[t].sem] < engine.max_concurrent
               /\ Step(t, [f EXCEPT !.pc = "fetch", !.requests = @ + 1,
                                     !.page = (engine.variant = "js")],
                       picked.engine, [sems EXCEPT ![tasks[t].sem] = @ + 1])

\* An attempt that keeps its slot when it ends
release_leaked(sm, s) == sm

\* The end of async with self._semaphore: the slot is given back
release(sm, s) == [sm EXCEPT ![s] = @ - 1]

\* The attempt got its page: the data are extracted and scrape returns; the browser
\* engine closes its page in the finally clause
AttemptSucceeded(t, f, response) ==
    LET data == Extract(response.doc, call.fields)
        html == IF engine.variant = "static" THEN response.doc ELSE None
        done == [f EXCEPT !.html = response.doc, !.status = response.status,
                          !.outcomes = Append(@, None), !.page = FALSE,
                          !.reports = Append(@, "none"), !.sem = 0]
        released == release(sems, f.sem)
        e == ProxySucceeded(engine, f.proxy)
    IN IF engine.detect_duplicates /\ _compute_hash(data) \in engine.seen_hashes
       THEN Step(t, Return(done, WithData(ScrapeResult(f.url, TRUE,
                                              "Duplicate detected (skipped)", html), data)),
                 e, released)
       ELSE Step(t, Return(done, WithData(ScrapeResult(f.url, TRUE, None, html), data)),
                 [e EXCEPT !.consecutive_errors = 0,
                                !.seen_hashes = IF engine.detect_duplicates
                                                THEN @ \cup {_compute_hash(data)}
                                                ELSE @],
                 released)

\* The page request of an attempt ends: with the page, or in an except clause
FetchDone(t) ==
    /\ tasks[t].pc = "fetch"
    /\ Resumable
    /\ \E response \in IF engine.variant = "static" THEN StaticResponses ELSE JsResponses :
          LET error == IF engine.variant = "static" THEN StaticAttemptError(response)
                       ELSE JsAttemptError(response)
          IN IF error = None
             THEN AttemptSucceeded(t, tasks[t], response)
             ELSE Step(t, AttemptFailed([tasks[t] EXCEPT !.status = response.status],
                                        engine, error),
                       [ProxyFailed(engine, tasks[t].proxy)
                           EXCEPT !.consecutive_errors = @ + 1],
                       release(sems, tasks[t].sem))

\* The backoff sleep has ended: the next attempt
BackoffDone(t) ==
    /\ tasks[t].pc = "backoff"
    /\ Resumable
    /\ Step(t, Arrive([tasks[t] EXCEPT !.attempt = @ + 1], engine), engine, sems)

\* run(): the next turn of the loop takes the next URL
NextUrl ==
    /\ call.op = "run"
    /\ ~StopObserved
    /\ tasks[1].pc = "done"
    /\ Len(call.finished) < Len(call.urls)
    /\ tasks' = << Frame(call.urls[Len(call.finished) + 1]) >>
    /\ call' = [call EXCEPT !.final_results = Append(@, tasks[1].ret)]
    /\ UNCHANGED <<engine, sems, rate, orchVars, proxyVars>>

\* Results in the order the tasks finished in
as_completed(frames, finished) == [i \in 1..Len(finished) |-> frames[finished[i]]]

\* asyncio.gather(*tasks, return_exceptions=True): one entry per task, in the
\* order of the tasks
gather(frames, finished) == [i \in 1..Len(frames) |-> frames[i]]

\* scrape_batch: an exception becomes ScrapeResult(url=urls[i], success=False,
\* data={}, error=str(result))
final_result(f, u) ==
    IF f.pc = "raised"
    THEN WithData(ScrapeResult(u, FALSE, f.raised, None), EmptyData)
    ELSE f.ret

\* scrape_batch from the return of gather to its own return
BatchReturn ==
    /\ call.op = "scrape_batch"
    /\ ~call.returned
    /\ \A i \in DOMAIN tasks : Finished(tasks[i])
    /\ LET gathered == gather(tasks, call.finished)
       IN call' = [call EXCEPT !.returned = TRUE,
                               !.final_results =
                                   [i \in DOMAIN gathered |->
                                       final_result(gathered[i], call.urls[i])]]
    /\ UNCHANGED <<engine, tasks, sems, rate, orchVars, proxyVars>>

NextScrape ==
    \/ \E t \in DOMAIN tasks : check_robots(t)
    \/ \E t \in DOMAIN tasks : RobotsResponse(t)
    \/ \E t \in DOMAIN tasks : scrape(t)
    \/ \E t \in DOMAIN tasks : PlaywrightStarted(t)
    \/ \E t \in DOMAIN tasks : BrowserReady(t)
    \/ \E t \in DOMAIN tasks : RateLimitDone(t)
    \/ \E t \in DOMAIN tasks : Acquire(t)
    \/ \E t \in DOMAIN tasks : FetchDone(t)
    \/ \E t \in DOMAIN tasks : BackoffDone(t)
    \/ NextUrl

\* run() calling check_robots and scrape of one engine, URL after URL
SpecScrape == InitRun /\ [][NextScrape]_vars

NextBatch ==
    \/ \E t \in DOMAIN tasks : RobotsResponse(t)
    \/ \E t \in DOMAIN tasks : scrape(t)
    \/ \E t \in DOMAIN tasks : PlaywrightStarted(t)
    \/ \E t \in DOMAIN tasks : BrowserReady(t)
    \/ \E t \in DOMAIN tasks : RateLimitDone(t)
    \/ \E t \in DOMAIN tasks : Acquire(t)
    \/ \E t \in DOMAIN tasks : FetchDone(t)
    \/ \E t \in DOMAIN tasks : BackoffDone(t)
    \/ BatchReturn

\* scrape_batch of one engine
SpecBatch == InitBatch /\ [][NextBatch]_vars

\* run() has started and is in its loop: _running is set, no stop requested yet.
\* Of the orchestrator only the flags are followed here; the loop is in the frames.
InitOrchRunning(urls) ==
    /\ project = [target |-> [urls |-> urls], fields |-> 1,
                  link_follow |-> [enabled |-> FALSE, link_selectors |-> << >>,
                                   max_depth |-> 1, same_domain_only |-> TRUE]]
    /\ pc = "scrape"
    /\ running = TRUE
    /\ paused = FALSE
    /\ stop_requested = FALSE
    /\ url_queue = << >>
    /\ seen_urls = {}
    /\ pages_scraped = 0
    /\ results = << >>
    /\ url = NoUrl
    /\ result = NoResult
    /\ signals = NoSignals
    /\ lastCall = None

\* run() in its loop with a fresh engine that retries, and a caller that may stop it
InitStoppable ==
    /\ InitProxyIdle
    /\ \E variant \in Variants, retry_count \in 1..MaxRetry, respect_robots \in BOOLEAN :
          engine = NewEngine(variant, retry_count, MaxSlots, respect_robots, FALSE)
    /\ \E urls \in UrlLists :
          /\ InitOrchRunning(urls)
          /\ call = NewCall("run", urls, << SelectorField("title", "h1") >>)
          /\ tasks = << Frame(urls[1]) >>
    /\ sems = << >>
    /\ rate = NoRate

NextStoppable ==
    \/ NextScrape
    \/ stop

\* run() calling the engine while stop() may be called at any await
SpecStoppable == InitStoppable /\ [][NextStoppable]_vars

\* run() with a fresh engine of a project that has proxying enabled
InitProxied ==
    /\ InitOrchIdle
    /\ InitProxyIdle
    /\ \E variant \in Variants, retry_count \in 0..MaxRetry, respect_robots \in BOOLEAN,
          rotating \in BOOLEAN :
          engine = WithProxies(NewEngine(variant, retry_count, MaxSlots, respect_robots,
                                         FALSE),
                               ProxyConfig(MaxProxies, rotating))
    /\ \E urls \in UrlLists :
          /\ call = NewCall("run", urls, << SelectorField("title", "h1") >>)
          /\ tasks = << Frame(urls[1]) >>
    /\ sems = << >>
    /\ rate = NoRate

\* run() calling check_robots and scrape of an engine that is to use proxies
SpecProxied == InitProxied /\ [][NextScrape]_vars

(***************************************************************************)
(* _wait_rate_limit of both engines.  _consecutive_errors counts the       *)
(* failed attempts since the last success that was not a duplicate, and    *)
(* nothing bounds it.  max_delay is a float (a pydantic float field), and  *)
(* 2 ** n is an exact int: their product converts the int to a float,      *)
(* which raises OverflowError from 2 ** 1024 on.                           *)
(***************************************************************************)
MaxErrors == 1025

\* The 60.0 of min(..., 60.0)
RateCap == 60

\* sys.float_info.max_exp: an int of 2 ** 1024 or more has no float
FloatMaxExp == 1024

\* The delays a project can set, in whole seconds
DelayValues == {0, 1, 3}

Min(a, b) == IF a <= b THEN a ELSE b

\* min(x * 2 ** n, 60.0) where the product is a float: x doubled n times, and no
\* further once it has passed the cap
RECURSIVE CappedDouble(_, _)
CappedDouble(x, n) ==
    IF n = 0 \/ x = 0 \/ x >= RateCap THEN Min(x, RateCap)
    ELSE CappedDouble(2 * x, n - 1)

\* _wait_rate_limit has slept d seconds
Slept(d) == [delay |-> d, raised |-> None]

\* delay = min(self.rate_limit.max_delay * (2 ** self._consecutive_errors), 60.0)
adaptive_delay(max_delay, n) ==
    IF n >= FloatMaxExp
    THEN [delay |-> NoDelay, raised |-> "OverflowError: int too large to convert to float"]
    ELSE Slept(CappedDouble(max_delay, n))

\* random.uniform(a, b), a <= b
uniform(a, b) == a..b

\* The ways _wait_rate_limit can end with n consecutive errors counted
_wait_rate_limit(config, n) ==
    IF config.adaptive /\ n > 0
    THEN {adaptive_delay(config.max_delay, n)}
    ELSE {Slept(d) : d \in uniform(config.min_delay, config.max_delay)}

\* A fresh engine of either variant with the rate limit of its project
InitRateLimit ==
    /\ InitOrchIdle
    /\ InitProxyIdle
    /\ \E variant \in Variants : engine = NewEngine(variant, 0, MaxSlots, FALSE, FALSE)
    /\ \E min_delay \in DelayValues, max_delay \in DelayValues, adaptive \in BOOLEAN :
          /\ min_delay <= max_delay
          /\ rate = RateLimitConfig(min_delay, max_delay, adaptive)
    /\ call = NoCall
    /\ tasks = << >>
    /\ sems = << >>

\* scrape: await self._wait_rate_limit()
WaitRateLimit ==
    /\ \E end \in _wait_rate_limit(rate, engine.consecutive_errors) :
          rate' = [rate EXCEPT !.called = TRUE, !.errors = engine.consecutive_errors,
                               !.delay = end.delay, !.raised = end.raised]
    /\ UNCHANGED <<engine, call, tasks, sems, orchVars, proxyVars>>

\* The wait of the scrape call is over: rate keeps the configuration only
AfterWait == RateLimitConfig(rate.min_delay, rate.max_delay, rate.adaptive)

\* An attempt of scrape ends in an except clause: self._consecutive_errors += 1
ErrorCounted ==
    /\ engine.consecutive_errors < MaxErrors
    /\ engine' = [engine EXCEPT !.consecutive_errors = @ + 1]
    /\ rate' = AfterWait
    /\ UNCHANGED <<call, tasks, sems, orchVars, proxyVars>>

\* An attempt of scrape succeeds: self._consecutive_errors = 0
ErrorsReset ==
    /\ engine' = [engine EXCEPT !.consecutive_errors = 0]
    /\ rate' = AfterWait
    /\ UNCHANGED <<call, tasks, sems, orchVars, proxyVars>>

NextRateLimit ==
    \/ WaitRateLimit
    \/ ErrorCounted
    \/ ErrorsReset

SpecRateLimit == InitRateLimit /\ [][NextRateLimit]_vars

(***************************************************************************)
(* Properties of the engines.                                              *)
(***************************************************************************)
\* The attempts of the frame so far all failed
AllFailed(f) == \A i \in 1..Len(f.outcomes) : f.outcomes[i] # None

\* C11: scrape makes at most retry_count + 1 attempts and returns at the first one
\* that succeeds; the retry after the failed attempt k comes after a sleep of 2^k
\* seconds.  With retry_count = 2 and the attempts failing, failing, succeeding, the
\* result is a success and the sleeps were 1 s and 2 s, no more.
C11_RetriesWithBackoff ==
    \A t \in DOMAIN tasks :
        LET f == tasks[t]
        IN /\ Len(f.outcomes) <= engine.retry_count + 1
           /\ f.requests <= engine.retry_count + 1
           /\ \A i \in 1..Len(f.outcomes) :
                 f.outcomes[i] = None =>
                     i = Len(f.outcomes) /\ f.pc = "done" /\ f.ret.success
           /\ \A k \in 1..Len(f.sleeps) :
                 f.sleeps[k] = 2 ^ (k - 1) /\ f.outcomes[k] # None
           /\ f.pc \in {"acquire", "fetch", "backoff"} => Len(f.sleeps) = f.attempt
               + (IF f.pc = "backoff" THEN 1 ELSE 0)
           /\ f.pc \in {"acquire", "fetch"} => Len(f.outcomes) = f.attempt
           /\ (engine.retry_count = 2 /\ Len(f.outcomes) = 3 /\ f.outcomes[1] # None
                 /\ f.outcomes[2] # None /\ f.outcomes[3] = None)
               => f.ret.success /\ f.sleeps = <<1, 2>>

C11_Witness ==
    \E t \in DOMAIN tasks :
        /\ engine.retry_count = 2
        /\ tasks[t].pc = "done"
        /\ Len(tasks[t].outcomes) = 3
        /\ tasks[t].outcomes[3] = None
        /\ tasks[t].ret.success
        /\ tasks[t].sleeps = <<1, 2>>

\* C12: when all retry_count + 1 attempts fail, scrape returns, without raising, a
\* failed result with the error of the last attempt, after retry_count sleeps: none
\* follows the last attempt.
C12_ExhaustedReturnsLastError ==
    \A t \in DOMAIN tasks :
        LET f == tasks[t]
        IN (Len(f.outcomes) = engine.retry_count + 1 /\ AllFailed(f))
            => /\ f.pc = "done"
               /\ f.raised = None
               /\ ~f.ret.success
               /\ f.ret.error = f.outcomes[Len(f.outcomes)]
               /\ Len(f.sleeps) = engine.retry_count

C12_Witness ==
    \E t \in DOMAIN tasks :
        /\ engine.retry_count >= 1
        /\ tasks[t].pc = "done"
        /\ Len(tasks[t].outcomes) = engine.retry_count + 1
        /\ AllFailed(tasks[t])
        /\ tasks[t].outcomes[1] # tasks[t].outcomes[Len(tasks[t].outcomes)]
        /\ ~tasks[t].ret.success

\* The names of the field rules
FieldNames(fields) == {fields[i].name : i \in 1..Len(fields)}

\* C13 as stated: every result scrape returns has exactly one entry per field rule.
C13_OneEntryPerRule ==
    \A t \in DOMAIN tasks :
        tasks[t].pc = "done" =>
            Cardinality(DOMAIN tasks[t].ret.data) = Len(call.fields)

\* C13: a successful result has exactly one entry per distinct field name, its value
\* possibly None (rules of one name share the entry, which holds the value of the
\* last of them); a failed result has no entries.
C13_OneEntryPerName ==
    \A t \in DOMAIN tasks :
        LET r == tasks[t].ret
        IN tasks[t].pc = "done" =>
              IF r.success
              THEN /\ DOMAIN r.data = FieldNames(call.fields)
                   /\ \A i \in 1..Len(call.fields) :
                         (\A j \in (i + 1)..Len(call.fields) :
                             call.fields[j].name # call.fields[i].name)
                         => r.data[call.fields[i].name]
                                = _extract_field(tasks[t].html, call.fields[i])
              ELSE r.data = EmptyData

C13_Witness ==
    \E t \in DOMAIN tasks :
        /\ tasks[t].pc = "done"
        /\ tasks[t].ret.success
        /\ Len(call.fields) = 2
        /\ Cardinality(DOMAIN tasks[t].ret.data) = 2
        /\ \E name \in DOMAIN tasks[t].ret.data : tasks[t].ret.data[name] = None

\* C14: scrape_batch returns one result per URL, the i-th for urls[i], in whatever
\* order the scrapes finished; a scrape that raised becomes a failed result of its
\* own URL, and the results of the other scrapes are returned as they were.
C14_BatchOrderAndIsolation ==
    call.returned =>
        /\ Len(call.final_results) = Len(call.urls)
        /\ \A i \in 1..Len(call.urls) :
              /\ call.final_results[i].url = call.urls[i]
              /\ tasks[i].pc = "done" => call.final_results[i] = tasks[i].ret
              /\ tasks[i].pc = "raised" =>
                    /\ ~call.final_results[i].success
                    /\ call.final_results[i].error = tasks[i].raised
                    /\ call.final_results[i].data = EmptyData

C14_Witness ==
    /\ call.returned
    /\ call.urls = <<UrlA, UrlB>>
    /\ call.finished = <<2, 1>>
    /\ tasks[1].pc = "raised"
    /\ call.final_results[2].success

\* The page requests in flight
InFlight == {t \in DOMAIN tasks : tasks[t].pc = "fetch"}

\* C15: an engine never has more than max_concurrent page requests in flight.
C15_InFlightWithinLimit == Cardinality(InFlight) <= engine.max_concurrent

\* The plain-HTTP engine keeps the limit
StaticInFlightWithinLimit == engine.variant = "static" => C15_InFlightWithinLimit

\* The robots.txt of the site was read, by this check or by an earlier one
RobotsKnown(how) == how \in {"cached", "fetched"}

\* C16: with respect_robots, when the robots.txt of the site disallows the URL, the
\* plain-HTTP scrape requests no page and does not enter its retry loop: it returns
\* a failed result with the robots-blocked error and no data.
C16_StaticBlocksDisallowed ==
    \A t \in DOMAIN tasks :
        LET f == tasks[t]
        IN (/\ engine.variant = "static"
            /\ engine.respect_robots
            /\ RobotsKnown(f.robots_scrape)
            /\ f.url \in RobotsDisallowed)
           => /\ f.pc = "done"
              /\ ~f.ret.success
              /\ f.ret.error
                   = "Blocked by robots.txt: URL path '/b' is disallowed by robots.txt"
              /\ f.ret.data = EmptyData
              /\ f.requests = 0
              /\ f.outcomes = << >>
              /\ f.sleeps = << >>

C16_Witness ==
    \E t \in DOMAIN tasks :
        /\ engine.variant = "static"
        /\ tasks[t].url = UrlB
        /\ tasks[t].robots_scrape = "fetched"
        /\ tasks[t].pc = "done"
        /\ tasks[t].requests = 0

\* C17: in the browser engine with respect_robots, check_robots returns a warning
\* to run() for a URL the site's robots.txt disallows (and the page is fetched
\* all the same).
C17_BrowserWarnsOnDisallowed ==
    \A t \in DOMAIN tasks :
        (/\ engine.variant = "js"
         /\ engine.respect_robots
         /\ tasks[t].url \in RobotsDisallowed
         /\ tasks[t].pc # "new")
        => tasks[t].warning # None

\* C18: when the request for robots.txt fails, check_robots returns None: run() gets
\* no warning and goes on to scrape, and scrape goes on to request the page.
C18_RobotsFailOpen ==
    \A t \in DOMAIN tasks :
        LET f == tasks[t]
        IN /\ f.robots_run = "failed" => f.warning = None /\ f.pc # "new"
           /\ f.robots_scrape = "failed" =>
                 /\ f.pc \in {"rate", "acquire", "fetch", "backoff", "done"}
                 /\ f.pc = "done" =>
                       /\ f.requests >= 1
                       /\ f.raised = None
                       /\ f.ret.error # RobotsBlockedError(f.url)

C18_Witness ==
    \E t \in DOMAIN tasks :
        /\ tasks[t].url \in RobotsDisallowed
        /\ tasks[t].robots_run = "failed"
        /\ tasks[t].robots_scrape = "failed"
        /\ tasks[t].pc = "done"
        /\ tasks[t].ret.success

\* error of a result returned for a record seen before
DuplicateAnnotation == "Duplicate detected (skipped)"

\* The results scrape has returned to run() so far, in order
ReturnedResults ==
    call.final_results \o (IF tasks[1].pc = "done" THEN << tasks[1].ret >> ELSE << >>)

\* C22: with detect_duplicates, a successful result carries the duplicate annotation
\* exactly when an earlier successful result of the engine had the same record, and
\* carries no error otherwise; _seen_hashes holds the hashes of the successful
\* results' records, only grows, and a scrape that returns a failure leaves it as
\* it was.  Without detect_duplicates nothing is annotated or remembered.
C22_DuplicateAnnotated ==
    /\ [](LET R == ReturnedResults
               Successes == {i \in 1..Len(R) : R[i].success}
           IN IF engine.detect_duplicates
              THEN /\ \A i \in Successes :
                        /\ R[i].error \in {None, DuplicateAnnotation}
                        /\ R[i].error = DuplicateAnnotation
                              <=> \E j \in Successes : j < i /\ R[j].data = R[i].data
                   /\ engine.seen_hashes = {_compute_hash(R[i].data) : i \in Successes}
              ELSE /\ \A i \in Successes : R[i].error = None
                   /\ engine.seen_hashes = {})
    /\ [][engine.seen_hashes \subseteq engine.seen_hashes']_vars
    /\ [][(tasks[1].pc # "done" /\ tasks'[1].pc = "done" /\ ~tasks'[1].ret.success)
          => engine.seen_hashes' = engine.seen_hashes]_vars

C22_Witness ==
    /\ engine.detect_duplicates
    /\ Len(call.final_results) = 1
    /\ call.final_results[1].url = UrlA
    /\ call.final_results[1].success /\ call.final_results[1].error = None
    /\ tasks[1].url = UrlB /\ tasks[1].pc = "done"
    /\ Len(tasks[1].outcomes) = 2
    /\ tasks[1].ret.success /\ tasks[1].ret.error = DuplicateAnnotation
    /\ tasks[1].ret.data = call.final_results[1].data
    /\ Cardinality(engine.seen_hashes) = 1

\* C23: once stop() has been called while scrape is in its retry loop for a URL,
\* scrape looks at the stop flag before each attempt: it sends no further page
\* request for that URL and starts no further backoff sleep.  (The pause loop's
\* look at the flag per poll is the second conjunct of C3_StopHalts.)
C23_StopEndsRetries ==
    [][(stop_requested /\ tasks[1].in_scrape /\ tasks[1].outcomes # << >>)
       => /\ tasks'[1].requests = tasks[1].requests
          /\ tasks'[1].sleeps = tasks[1].sleeps]_vars

\* C25: a failed result carries no data: the result of a scrape that was blocked by
\* robots.txt or ran out of attempts, in either engine, and the result scrape_batch
\* makes of a scrape that raised.
C25_FailedResultHasNoData ==
    /\ \A t \in DOMAIN tasks :
          (tasks[t].pc = "done" /\ ~tasks[t].ret.success)
              => tasks[t].ret.data = EmptyData
    /\ \A i \in DOMAIN call.final_results :
          ~call.final_results[i].success => call.final_results[i].data = EmptyData

C25_Witness ==
    /\ call.returned
    /\ engine.variant = "static"
    /\ call.urls = <<UrlA, UrlB>>
    /\ call.final_results[1].error = HttpError(404)
    /\ Len(tasks[1].outcomes) = 2
    /\ call.final_results[2].error = RobotsBlockedError(UrlB)
    /\ call.final_results[1].data = EmptyData
    /\ call.final_results[2].data = EmptyData

\* C26: with adaptive on and n > 0 consecutive errors, _wait_rate_limit sleeps
\* min(max_delay * 2^n, 60) seconds: never more than 60, and no less than with
\* n - 1 errors; with n = 0 it sleeps between min_delay and max_delay.
C26_DelayCappedAndMonotone ==
    rate.called =>
        /\ (rate.adaptive /\ rate.errors > 0) =>
               /\ rate.raised = None
               /\ rate.delay = CappedDouble(rate.max_delay, rate.errors)
               /\ rate.delay <= RateCap
               /\ rate.errors > 1 =>
                      rate.delay >= CappedDouble(rate.max_delay, rate.errors - 1)
        /\ rate.errors = 0 =>
               /\ rate.raised = None
               /\ rate.min_delay <= rate.delay /\ rate.delay <= rate.max_delay

\* Below 1024 consecutive errors the delay is as C26 has it
DelayCappedBelowOverflow == rate.errors < FloatMaxExp => C26_DelayCappedAndMonotone

Proxying == engine.proxy.enabled /\ engine.proxy.proxies # << >>

\* C29: with proxying enabled, each attempt of scrape, in either engine, chooses a
\* proxy for itself and tells the proxy bookkeeping how it ended, success or
\* failure; a proxy is left out of the choice only after max_fail_count failed
\* attempts in a row through it.
C29_ProxyPerAttempt ==
    Proxying =>
        /\ \A t \in DOMAIN tasks :
              LET f == tasks[t]
              IN /\ \A i \in 1..Len(f.picks) : f.picks[i] # NoProxy
                 /\ \A i \in 1..Len(f.outcomes) :
                       f.reports[i] = (IF f.outcomes[i] = None THEN "success"
                                       ELSE "failure")
        /\ \A p \in engine.failed_proxies : engine.fail_streak[p] >= max_fail_count

\* What the plain-HTTP engine does do: each attempt chooses a proxy, and a failed
\* attempt puts its proxy in _failed_proxies
StaticPicksPerAttempt ==
    (Proxying /\ engine.variant = "static") =>
        \A t \in DOMAIN tasks :
            LET f == tasks[t]
            IN /\ \A i \in 1..Len(f.picks) : f.picks[i] # NoProxy
               /\ \A i \in 1..Len(f.outcomes) :
                     f.outcomes[i] # None => f.reports[i] = "failure"

\* The HTML in a successful result: the page of the plain-HTTP engine, None of the
\* browser engine
SuccessHtmlByVariant ==
    \A t \in DOMAIN tasks :
        (tasks[t].pc = "done" /\ tasks[t].ret.success)
            => tasks[t].ret.html = (IF engine.variant = "static" THEN tasks[t].html
                                    ELSE None)

\* A scrape is past its initialization: at the rate limit or in the retry loop
PastInit(f) == f.in_scrape /\ f.pc \in {"rate", "acquire", "fetch", "backoff"}

\* C31: the scrape calls of one browser engine initialize it once between them: one
\* pass through the body of _init_browser (one browser launched, one context, one
\* semaphore made), and a scrape that is past its initialization finds the semaphore
\* of the instance set.
C31_BrowserInitializedOnce ==
    engine.variant = "js" =>
        /\ Len(sems) <= 1
        /\ \A t \in DOMAIN tasks : PastInit(tasks[t]) => engine.semaphore # 0

\* In a batch every scrape that is past its initialization finds a semaphore set,
\* and the plain-HTTP engine makes its client and semaphore once
InitializedBeforeUse ==
    /\ \A t \in DOMAIN tasks : PastInit(tasks[t]) => engine.semaphore # 0
    /\ engine.variant = "static" => Len(sems) <= 1

\* HTTP client-error statuses
ClientErrors == 400..499

\* C32: a scrape whose last page response had a 4xx status returns a failed result
\* with the HTTP-status error of that response, one the default pause predicate of
\* run() takes for a pause; it is never a success.  In both engines.
C32_ClientErrorFails ==
    \A t \in DOMAIN tasks :
        (tasks[t].pc = "done" /\ tasks[t].status \in ClientErrors)
            => /\ ~tasks[t].ret.success
               /\ tasks[t].ret.error = HttpError(tasks[t].status)
               /\ _should_pause_on_error(tasks[t].ret)

\* The plain-HTTP engine does so
StaticClientErrorFails ==
    engine.variant = "static" => C32_ClientErrorFails

\* The check of a frame went out to the site for its robots.txt
Requested(how) == IF how \in {"fetched", "failed"} THEN 1 ELSE 0

\* The requests for robots.txt the frame has made: in the check of run(), in the
\* check of scrape, and the one it waits for
RobotsRequests(f) ==
    Requested(f.robots_run) + Requested(f.robots_scrape)
        + (IF f.pc = "robots_wait" THEN 1 ELSE 0)

RECURSIVE RobotsRequestsOf(_, _)
\* The requests for the robots.txt of origin the first n frames have made
RobotsRequestsOf(origin, n) ==
    IF n = 0 THEN 0
    ELSE RobotsRequestsOf(origin, n - 1)
            + (IF base_url(tasks[n].url) = origin THEN RobotsRequests(tasks[n]) ELSE 0)

\* C33: the engine asks a site for its robots.txt at most once, whatever the number
\* of checks and scrapes of URLs of that site.
C33_RobotsRequestedOncePerOrigin ==
    \A u \in SeqToSet(call.urls) : RobotsRequestsOf(base_url(u), Len(tasks)) <= 1

\* A site whose rules are in the cache is not asked again
CachedOriginNotRequested ==
    [][\A t \in DOMAIN tasks :
          (t \in DOMAIN tasks' /\ tasks'[t].pc = "robots_wait" /\ tasks[t].pc # "robots_wait")
              => base_url(tasks[t].url) \notin engine.robots_cache]_vars

\* Task t returns from scrape in this step
Returns(t) == t \in DOMAIN tasks' /\ tasks[t].pc # "done" /\ tasks'[t].pc = "done"

\* An attempt of task t ends in this step, and fails
AttemptFails(t) ==
    /\ t \in DOMAIN tasks'
    /\ Len(tasks'[t].outcomes) = Len(tasks[t].outcomes) + 1
    /\ tasks'[t].outcomes[Len(tasks'[t].outcomes)] # None

\* C38: when scrape returns a success the engine's _consecutive_errors is 0; an
\* attempt that fails adds exactly 1 to it; a result blocked by robots.txt leaves it
\* as it was.
C38_ErrorCounterResetOnSuccess ==
    [][\A t \in DOMAIN tasks :
          /\ (Returns(t) /\ tasks'[t].ret.success) => engine'.consecutive_errors = 0
          /\ AttemptFails(t)
                => engine'.consecutive_errors = engine.consecutive_errors + 1
          /\ (Returns(t) /\ tasks'[t].ret.error = RobotsBlockedError(tasks[t].url))
                => engine'.consecutive_errors = engine.consecutive_errors]_vars

\* The same for the successes that are not reported as duplicates
FreshSuccessResetsErrorCounter ==
    [][\A t \in DOMAIN tasks :
          /\ (Returns(t) /\ tasks'[t].ret.success /\ tasks'[t].ret.error = None)
                => engine'.consecutive_errors = 0
          /\ AttemptFails(t)
                => engine'.consecutive_errors = engine.consecutive_errors + 1
          /\ (Returns(t) /\ tasks'[t].ret.error = RobotsBlockedError(tasks[t].url))
                => engine'.consecutive_errors = engine.consecutive_errors]_vars

\* The tasks that are inside async with self._semaphore of semaphore s
Holders(s) == {t \in DOMAIN tasks : tasks[t].pc = "fetch" /\ tasks[t].sem = s}

\* C39: the slots taken of a semaphore are those of the attempts that are inside its
\* async with: an attempt that ended, with its page, in an except clause or by
\* raising holds none, nor does a scrape in its rate-limit delay or in a backoff
\* sleep, and with no attempt in flight every slot is free.  A browser page is open
\* only while its attempt is in flight: it is closed before the next attempt.
C39_SlotsNeverLeak ==
    /\ \A s \in DOMAIN sems : sems[s] = Cardinality(Holders(s))
    /\ InFlight = {} => \A s \in DOMAIN sems : sems[s] = 0
    /\ \A t \in DOMAIN tasks :
          /\ tasks[t].pc \in {"rate", "backoff", "done", "raised"} => tasks[t].sem = 0
          /\ tasks[t].page => (engine.variant = "js" /\ tasks[t].pc = "fetch")

\* A batch at rest after its attempts ended in every way: one scrape returned a
\* success, one sleeps between a failed attempt and its retry, and no slot is taken
C39_Witness ==
    /\ sems # << >>
    /\ \A s \in DOMAIN sems : sems[s] = 0
    /\ \E t1, t2 \in DOMAIN tasks :
          /\ tasks[t1].pc = "done" /\ tasks[t1].ret.success
          /\ tasks[t2].pc = "backoff" /\ tasks[t2].requests = 1

====
